---- MODULE Spec2Model ----
(***************************************************************************)
(* Model of the distributed coordination layer of cscatt                   *)
(* (src/modules/mpi_lib.c): task partitioner, typed point-to-point          *)
(* messaging on top of MPI, and the gather-output protocol of               *)
(* mpi_vector_write().                                                      *)
(*                                                                         *)
(* One MPI process is one element of Ranks; the file-scope statics of       *)
(* mpi_lib.c (this_rank, comm_size, chunk_size, tasks, extra_tasks,         *)
(* last_rank_index) exist once per process, so each is a function of rank.  *)
(***************************************************************************)
EXTENDS Integers, Sequences, FiniteSets, TLC

(***************************************************************************)
(* Bounds of the model.                                                    *)
(***************************************************************************)
\* largest communicator size explored
MaxSize == 4
\* largest max_task handed to mpi_set_tasks()
MaxTask == 6
\* size_t arithmetic wraps modulo WordMod.  The real modulus is 2^64; the
\* partitioner only needs a modulus far above every index it produces, so a
\* smaller one is used to keep the values inside the integers of the model checker.
WordMod == 4096

\* largest communicator explored by the messaging and gather-output models
MaxProcs == 3
\* number of mpi_send() calls a run of the messaging model may issue
MaxSends == 3
\* largest element count of a send or receive, and length of the buffers
MaxLen == 2
\* largest vector length handed to mpi_vector_write()
MaxVecLen == 6
\* number of mpi_vector_write() calls each process issues
MaxCalls == 2

\* largest number of rows and of columns of a matrix
MaxRow == 3
MaxCol == 2
\* largest number of mpi_matrix_set() calls in the stream the processes issue
MaxSets == 3

\* number of mpi_barrier() calls each process issues
MaxBarriers == 3

\* largest communicator explored by the topology and backend models
MaxTopoProcs == 2

\* number of mpi_matrix_eigenpair() calls each process issues
MaxPairs == 1

\* largest max_task of the collective mpi_set_tasks() calls
MaxJointTask == 10

\* number of OpenMP threads of a process that issue messaging calls
MaxThreads == 2
\* number of MPI calls of a process after which its threads issue no further
\* messaging call
MaxWire == 3
\* number of matrix or vector handles a run allocates at a time
MaxHandles == 2
\* number of eigensolves run on one handle
MaxSolves == 2
\* number of times one handle is allocated
MaxAllocs == 2

VARIABLES
  build,            \* compile-time macros: [mpi |-> USE_MPI, petsc |-> USE_PETSC]
  comm_size,        \* static comm_size (same on every process)
  chunk_size,       \* static chunk_size, per process
  tasks,            \* static tasks, per process
  extra_tasks,      \* static extra_tasks, per process
  last_rank_index,  \* static last_rank_index, per process
  called,           \* per process: has mpi_set_tasks() been called yet
  pc,               \* per process: position in the operation it executes
  ret,              \* per process: position to resume at when mpi_send/mpi_receive returns
  sarg,             \* per process: arguments of the running mpi_send()
  rarg,             \* per process: arguments and local m of the running mpi_receive()
  buf,              \* per process: the buffer mpi_receive() writes into
  hdr,              \* hdr[s][d]: length headers in flight from s to d (tag 666)
  dat,              \* dat[s][d]: payloads in flight from s to d (tag 667)
  sent,             \* history, sent[s]: the mpi_send() calls of s with what they transmit, in call order
  log,              \* history, log[d][s]: the payload receptions of d from s, in order
  etype,            \* element type used by the calls of the messaging model
  vlen,             \* length of the vector handed to mpi_vector_write()
  n_min,            \* argument n_min of mpi_vector_write()
  n_max,            \* argument n_max of mpi_vector_write()
  wn,               \* per process: loop variable n of mpi_vector_write()
  wfrom,            \* loop variable from of the root's drain loop
  bar,              \* per process: number of MPI_Barrier() calls entered
  ncalls,           \* per process: number of mpi_vector_write() calls returned from
  sink,             \* what fwrite() appended to the root's stream, in order
  fwrites,          \* per process: number of fwrite() calls made on its stream argument
  inbox,            \* per process: the mpi_inbox() call it is in, with the value it returns
  max_row,          \* m->max_row of the matrix handle (same on every process)
  max_col,          \* m->max_col of the matrix handle
  stream,           \* the mpi_matrix_set() calls every process issues, in order
  mpos,             \* per process: how many calls of the stream it has made
  mat,              \* per process: m->data as the process holds it, by <<row, col>>
  assembled,        \* the entries of the PETSc matrix after assembly, by <<row, col>>
  applied,          \* history, by call of the stream: the processes that stored its value
  built,            \* per process: has it returned from mpi_matrix_build()
  statics,          \* per process: its statics this_rank, comm_size, thread_level
  life,             \* per process: "fresh", "inited" (after mpi_init) or "ended" (after mpi_end)
  got,              \* per process: the accessor or eigenpair call it made last, with its result
  trace,            \* history, per process: its PETSc/SLEPc calls with their error codes
  eig,              \* per process: "none", or "solved" after mpi_matrix_sparse_eigen()
  eager,            \* does the MPI library buffer a standard-mode MPI_Send
  crit,             \* per process: the thread inside an omp critical region, 0 if none
  tpc,              \* per process and thread: position in the messaging call it executes
  wire,             \* history, per process: the MPI calls its threads made, in order
  handles,          \* by handle: what mpi_matrix_alloc()/mpi_vector_alloc() returned it as, and the solves run on it
  heap              \* the resources acquired (memory blocks, PETSc/SLEPc objects) and not released

partVars == <<comm_size, chunk_size, tasks, extra_tasks, last_rank_index, called>>
msgVars == <<build, pc, ret, sarg, rarg, buf, hdr, dat, sent, log, etype>>
writeVars == <<vlen, n_min, n_max, wn, wfrom, bar, ncalls, sink, fwrites>>
probeVars == <<inbox>>
matVars == <<max_row, max_col, stream, mpos, mat, assembled, applied, built>>
topoVars == <<statics, life, got>>
backVars == <<trace, eig>>
libVars == <<eager, crit, tpc, wire>>
memVars == <<handles, heap>>
extVars == <<probeVars, matVars, topoVars, backVars, libVars, memVars>>
vars == <<partVars, msgVars, writeVars, extVars>>

\* the processes of the run; the variable comm_size is the size of
\* MPI_COMM_WORLD, which is 1 in a build without USE_MPI
Ranks == 0 .. (comm_size - 1)

MpiAlwaysCompiled == TRUE

\* the compile-time macros
USE_MPI == build.mpi
\* USE_SLEPC is defined together with USE_PETSC
USE_PETSC == build.petsc

AssertCompiledOut(expr) == TRUE

\* ASSERT(expr) of globals.h: the process goes on only if expr holds and is
\* halted otherwise
ASSERT(expr) == expr

\* the thread support level mpi_init() asks MPI_Init_thread() for
MPI_THREAD_SERIALIZED == 2

(***************************************************************************)
(* Values of the state components before an operation has touched them.    *)
(***************************************************************************)

\* the statics of the partitioner as the initialisers of mpi_lib.c leave them
PartIdle ==
  /\ chunk_size = [r \in Ranks |-> 1]
  /\ tasks = [r \in Ranks |-> 1]
  /\ extra_tasks = [r \in Ranks |-> 0]
  /\ last_rank_index = [r \in Ranks |-> 0]
  /\ called = [r \in Ranks |-> FALSE]

NoSend == [to |-> 0, n |-> 0, type |-> "d", data |-> <<>>, id |-> 0, call |-> 0]
NoRecv == [from |-> 0, n |-> 0, type |-> "d", m |-> 0, hid |-> 0]

\* nothing in flight, every process between two operations
MsgIdle ==
  /\ pc = [r \in Ranks |-> "idle"]
  /\ ret = [r \in Ranks |-> "idle"]
  /\ sarg = [r \in Ranks |-> NoSend]
  /\ rarg = [r \in Ranks |-> NoRecv]
  /\ buf = [r \in Ranks |-> [i \in 1 .. MaxLen |-> 0]]
  /\ hdr = [s \in Ranks |-> [d \in Ranks |-> <<>>]]
  /\ dat = [s \in Ranks |-> [d \in Ranks |-> <<>>]]
  /\ sent = [s \in Ranks |-> <<>>]
  /\ log = [d \in Ranks |-> [s \in Ranks |-> <<>>]]

\* no mpi_vector_write() call issued yet
WriteIdle ==
  /\ wn = [r \in Ranks |-> 0]
  /\ wfrom = 0
  /\ bar = [r \in Ranks |-> 0]
  /\ ncalls = [r \in Ranks |-> 0]
  /\ sink = <<>>
  /\ fwrites = [r \in Ranks |-> 0]
  /\ vlen = 1
  /\ n_min = 0
  /\ n_max = 1

NoProbe == [from |-> 0, flag |-> FALSE]

\* a thread that is in no messaging call
NoCall == [op |-> "none", at |-> "out"]

\* no process inside mpi_inbox()
ProbeIdle == inbox = [r \in Ranks |-> NoProbe]

\* an entry no value was stored in
NoValue == 0 - 1

\* the positions of a matrix of the given shape
Positions(rows, cols) == (0 .. (rows - 1)) \X (0 .. (cols - 1))

\* a matrix handle as mpi_matrix_alloc() returns it: nothing stored yet
MatFresh ==
  /\ mpos = [r \in Ranks |-> 0]
  /\ mat = [r \in Ranks |-> [e \in Positions(max_row, max_col) |-> NoValue]]
  /\ assembled = [e \in Positions(max_row, max_col) |-> NoValue]
  /\ applied = [k \in 1 .. Len(stream) |-> {}]
  /\ built = [r \in Ranks |-> FALSE]

\* no matrix in use: a 1-by-1 handle nobody stores into
MatIdle ==
  /\ max_row = 1
  /\ max_col = 1
  /\ stream = <<>>
  /\ MatFresh

\* the statics of the topology as the initialisers of mpi_lib.c leave them
StaticsFresh == [this_rank |-> 0, comm_size |-> 1, thread_level |-> 0]

\* the statics of rank r after mpi_init(): MPI_Init_thread() stores the
\* provided thread level (only without USE_PETSC), MPI_Comm_rank() the rank,
\* MPI_Comm_size() the size; without USE_MPI nothing is stored
InitResultOneBased(r, provided) ==
  [this_rank |-> IF USE_MPI THEN r + 1 ELSE StaticsFresh.this_rank,
   comm_size |-> IF USE_MPI THEN comm_size ELSE StaticsFresh.comm_size,
   thread_level |-> IF USE_MPI /\ ~USE_PETSC THEN provided
                    ELSE StaticsFresh.thread_level]

InitResult(r, provided) ==
  [this_rank |-> IF USE_MPI THEN r ELSE StaticsFresh.this_rank,
   comm_size |-> IF USE_MPI THEN comm_size ELSE StaticsFresh.comm_size,
   thread_level |-> IF USE_MPI /\ ~USE_PETSC THEN provided
                    ELSE StaticsFresh.thread_level]

NoResult == [op |-> "none", val |-> 0]

\* ASSERT_RANK(n) on process r: n is below its static comm_size
ASSERT_RANK(r, n) == ASSERT(n < statics[r].comm_size)

\* every process has returned from mpi_init() and was given the thread
\* level it asked for
TopoUp ==
  /\ statics = [r \in Ranks |-> InitResult(r, MPI_THREAD_SERIALIZED)]
  /\ life = [r \in Ranks |-> "inited"]
  /\ got = [r \in Ranks |-> NoResult]

\* no PETSc/SLEPc call made, no eigenproblem solved
BackIdle ==
  /\ trace = [r \in Ranks |-> <<>>]
  /\ eig = [r \in Ranks |-> "none"]

\* every process is one thread that is in no messaging call
ThreadsIdle ==
  /\ crit = [r \in Ranks |-> 0]
  /\ tpc = [r \in Ranks |-> [t \in 1 .. MaxThreads |-> NoCall]]
  /\ wire = [r \in Ranks |-> <<>>]

\* the MPI library buffers the sends
LibIdle ==
  /\ eager = TRUE
  /\ ThreadsIdle

\* the handles a process can hold
Handles == 1 .. MaxHandles

\* a handle that is not allocated
NoHandle == [kind |-> "none", solves |-> 0, gen |-> 0]

\* no handle is allocated and no resource is held
MemIdle ==
  /\ handles = [h \in Handles |-> NoHandle]
  /\ heap = {}

\* the state components of the operations a model does not exercise, in a
\* run that has called mpi_init()
ExtIdle ==
  /\ ProbeIdle
  /\ MatIdle
  /\ TopoUp
  /\ BackIdle
  /\ LibIdle
  /\ MemIdle

SubNoWrap(a, b) == IF a < b THEN 0 ELSE a - b

\* unsigned (size_t) subtraction and addition with wrap-around
WSub(a, b) == (a - b + WordMod) % WordMod
WAdd(a, b) == (a + b) % WordMod

(***************************************************************************)
(* Typed messaging protocol: mpi_inbox(), mpi_send(), mpi_receive().       *)
(*                                                                         *)
(* MPI keeps, for each (source, destination, tag), the messages sent and   *)
(* not yet received in the order they were sent (non-overtaking rule).     *)
(* MPI_Send returns once the message is in flight when the library buffers *)
(* it (eager), and once it is received otherwise.  A length header travels *)
(* as one unsigned; the                                                    *)
(* counts of the model are far below 2^32, so the narrowing of size_t to   *)
(* unsigned does not change them.                                          *)
(***************************************************************************)

\* the element types the switch of mpi_send() and mpi_receive() has a case for
TypesWithAny == {"i", "c", "f", "d", "x"}

Types == {"i", "c", "f", "d"}
\* "x" stands for any character outside the four supported ones
TypeArgs == Types \cup {"x"}

Min(a, b) == IF a < b THEN a ELSE b
Max(a, b) == IF a > b THEN a ELSE b

\* identity of the k-th mpi_send() call of process p, and the caller's
\* buffer handed to that call
SendId(p, k) == 100 * (p + 1) + k
SendBuf(id) == [i \in 1 .. MaxLen |-> 10 * id + i]

RECURSIVE SumLen(_, _)
SumLen(f, S) ==
  IF S = {} THEN 0
  ELSE LET x == CHOOSE y \in S : TRUE IN Len(f[x]) + SumLen(f, S \ {x})

\* MPI_Send: the message joins the ones in flight on its channel
EnqueueFront(q, msg) == <<msg>> \o q

Enqueue(q, msg) == Append(q, msg)

InboxAnySource(p, from) == USE_MPI /\ \E s \in Ranks : hdr[s][p] # <<>>

\* mpi_inbox(from) on process p: MPI_Iprobe on tag 666; false without USE_MPI
mpi_inbox(p, from) == USE_MPI /\ hdr[from][p] # <<>>

\* m = min(n, m) of mpi_receive()
RecvCount(n, m) == Min(n, m)

\* mpi_send(), first MPI_Send: the length header on tag 666, then the switch
\* on the element type.  Without USE_MPI the whole function is empty.
mpi_send_header(p) ==
  /\ pc[p] = "send_hdr"
  /\ IF ~USE_MPI
     THEN /\ pc' = [pc EXCEPT ![p] = ret[p]]
          /\ sarg' = [sarg EXCEPT ![p] = NoSend]
          /\ UNCHANGED hdr
     ELSE /\ hdr' = [hdr EXCEPT ![p][sarg[p].to] =
                       Enqueue(@, [n |-> sarg[p].n, id |-> sarg[p].id])]
          /\ pc' = [pc EXCEPT ![p] =
                      IF sarg[p].type \in Types THEN "send_dat" ELSE "exited"]
          /\ UNCHANGED sarg
  /\ UNCHANGED <<extVars, partVars, writeVars, build, ret, rarg, buf, dat, sent, log, etype>>

\* a standard-mode MPI_Send returns at once when the library buffers the
\* message (eager); otherwise it returns when the destination has received
\* the message, that is when the message with identity id has left q
SendComplete(q, id) ==
  eager \/ \A k \in 1 .. Len(q) : q[k].id # id

\* mpi_send(), second MPI_Send: n elements of the buffer on tag 667, issued
\* when the first MPI_Send has returned
mpi_send_payload(p) ==
  /\ pc[p] = "send_dat"
  /\ SendComplete(hdr[p][sarg[p].to], sarg[p].id)
  /\ dat' = [dat EXCEPT ![p][sarg[p].to] =
               Enqueue(@, [type |-> sarg[p].type,
                           data |-> SubSeq(sarg[p].data, 1, sarg[p].n),
                           id |-> sarg[p].id, call |-> sarg[p].call])]
  /\ IF eager
     THEN /\ pc' = [pc EXCEPT ![p] = ret[p]]
          /\ sarg' = [sarg EXCEPT ![p] = NoSend]
     ELSE /\ pc' = [pc EXCEPT ![p] = "send_end"]
          /\ UNCHANGED sarg
  /\ UNCHANGED <<extVars, partVars, writeVars, build, ret, rarg, buf, hdr, sent, log, etype>>

\* mpi_send(), return of the second MPI_Send when the library does not
\* buffer the message
mpi_send_return(p) ==
  /\ pc[p] = "send_end"
  /\ SendComplete(dat[p][sarg[p].to], sarg[p].id)
  /\ pc' = [pc EXCEPT ![p] = ret[p]]
  /\ sarg' = [sarg EXCEPT ![p] = NoSend]
  /\ UNCHANGED <<extVars, partVars, writeVars, build, ret, rarg, buf, hdr, dat, sent, log, etype>>

\* mpi_receive(), first MPI_Recv: blocks for the sender's length header,
\* m = min(n, m), then the switch on the element type
mpi_receive_header(p) ==
  /\ pc[p] = "recv_hdr"
  /\ IF ~USE_MPI
     THEN /\ pc' = [pc EXCEPT ![p] = ret[p]]
          /\ rarg' = [rarg EXCEPT ![p] = NoRecv]
          /\ UNCHANGED hdr
     ELSE /\ hdr[rarg[p].from][p] # <<>>
          /\ LET h == Head(hdr[rarg[p].from][p])
             IN  rarg' = [rarg EXCEPT ![p].m = RecvCount(rarg[p].n, h.n),
                                      ![p].hid = h.id]
          /\ hdr' = [hdr EXCEPT ![rarg[p].from][p] = Tail(@)]
          /\ pc' = [pc EXCEPT ![p] =
                      IF rarg[p].type \in Types THEN "recv_dat" ELSE "exited"]
  /\ UNCHANGED <<extVars, partVars, writeVars, build, ret, sarg, buf, dat, sent, log, etype>>

\* mpi_receive(), second MPI_Recv with count m on tag 667.  A message longer
\* than the count is an MPI truncation error; no error handler is installed,
\* so the default one (errors are fatal) aborts the job.
mpi_receive_payload(p) ==
  /\ pc[p] = "recv_dat"
  /\ dat[rarg[p].from][p] # <<>>
  /\ LET msg == Head(dat[rarg[p].from][p])
         fits == Len(msg.data) <= rarg[p].m
         after == [i \in 1 .. MaxLen |->
                     IF i <= Len(msg.data) THEN msg.data[i] ELSE buf[p][i]]
         entry == [count |-> rarg[p].n,
                   hid |-> rarg[p].hid, did |-> msg.id, call |-> msg.call,
                   before |-> buf[p], ok |-> fits,
                   nread |-> IF fits THEN Len(msg.data) ELSE 0,
                   after |-> IF fits THEN after ELSE buf[p]]
     IN  /\ log' = [log EXCEPT ![p][rarg[p].from] = Append(@, entry)]
         /\ IF fits
            THEN /\ buf' = [buf EXCEPT ![p] = after]
                 /\ dat' = [dat EXCEPT ![rarg[p].from][p] = Tail(@)]
                 /\ pc' = [pc EXCEPT ![p] = ret[p]]
                 /\ rarg' = [rarg EXCEPT ![p] = NoRecv]
            ELSE /\ pc' = [r \in Ranks |-> "aborted"]
                 /\ UNCHANGED <<buf, dat, rarg>>
  /\ UNCHANGED <<extVars, partVars, writeVars, build, ret, sarg, hdr, sent, etype>>

\* The runs of the messaging model follow the one communication pattern the
\* repository uses (mpi_vector_write): within a run every message goes to one
\* and the same process, which is the one that receives.  Any process can be
\* that destination.
OneDestination(to) ==
  \A s \in Ranks : \A k \in 1 .. Len(sent[s]) : sent[s][k].dst = to

\* a process between two operations calls mpi_send(to, n, etype, data):
\* ASSERT(n > 0) and ASSERT_RANK(to) come first
CallSend(p, to, n) ==
  /\ pc[p] = "idle"
  /\ SumLen(sent, Ranks) < MaxSends
  /\ IF ~(ASSERT(n > 0) /\ ASSERT_RANK(p, to))
     THEN /\ pc' = [pc EXCEPT ![p] = "halted"]
          /\ UNCHANGED <<sarg, sent, ret>>
     ELSE /\ comm_size > 1 => (to # p /\ OneDestination(to))
          /\ LET id == SendId(p, Len(sent[p]) + 1)
             IN  /\ sarg' = [sarg EXCEPT ![p] = [to |-> to, n |-> n, type |-> etype,
                                                 data |-> SendBuf(id), id |-> id,
                                                 call |-> 0]]
                 /\ sent' = [sent EXCEPT ![p] =
                               Append(@, [dst |-> to, n |-> n, id |-> id,
                                          data |-> SubSeq(SendBuf(id), 1, n),
                                          call |-> 0])]
          /\ pc' = [pc EXCEPT ![p] = "send_hdr"]
          /\ ret' = [ret EXCEPT ![p] = "idle"]
  /\ UNCHANGED <<extVars, partVars, writeVars, build, rarg, buf, hdr, dat, log, etype>>

\* a process between two operations calls mpi_receive(from, n, etype, buf):
\* ASSERT(n > 0) and ASSERT_RANK(from) come first
CallReceive(p, from, n) ==
  /\ pc[p] = "idle"
  /\ IF ~(ASSERT(n > 0) /\ ASSERT_RANK(p, from))
     THEN /\ pc' = [pc EXCEPT ![p] = "halted"]
          /\ UNCHANGED <<rarg, ret>>
     ELSE /\ comm_size > 1 => (from # p /\ OneDestination(p))
          /\ rarg' = [rarg EXCEPT ![p] = [from |-> from, n |-> n, type |-> etype,
                                          m |-> 0, hid |-> 0]]
          /\ pc' = [pc EXCEPT ![p] = "recv_hdr"]
          /\ ret' = [ret EXCEPT ![p] = "idle"]
  /\ UNCHANGED <<extVars, partVars, writeVars, build, sarg, buf, hdr, dat, sent, log, etype>>

\* the state after mpi_init(): with USE_MPI a communicator of 2 or more
\* processes, without it every process keeps rank 0 and comm_size 1
InitMsg ==
  /\ build \in {[mpi |-> TRUE, petsc |-> FALSE], [mpi |-> FALSE, petsc |-> FALSE]}
  /\ comm_size \in (IF build.mpi THEN 2 .. MaxProcs ELSE {1})
  /\ etype \in TypeArgs
  /\ PartIdle
  /\ MsgIdle
  /\ WriteIdle
  /\ ExtIdle

NextMsg ==
  \/ \E p \in Ranks : \E to \in Ranks : \E n \in 1 .. MaxLen : CallSend(p, to, n)
  \/ \E p \in Ranks : \E from \in Ranks : \E n \in 1 .. MaxLen : CallReceive(p, from, n)
  \/ \E p \in Ranks : mpi_send_header(p)
  \/ \E p \in Ranks : mpi_send_payload(p)
  \/ \E p \in Ranks : mpi_receive_header(p)
  \/ \E p \in Ranks : mpi_receive_payload(p)

SpecMsg == InitMsg /\ [][NextMsg]_vars

(***************************************************************************)
(* Task partitioner: mpi_set_tasks(), mpi_first_task(), mpi_last_task(),   *)
(* mpi_extra_task().                                                       *)
(***************************************************************************)

\* the four statics as mpi_set_tasks(max_task) leaves them on a process of a
\* communicator of the given size; every operation is a size_t operation
SetTasksResult(max_task, size) ==
  LET cs  == max_task \div size
      lri == WAdd(((size - 1) * cs) % WordMod, WSub(cs, 1))
      ex  == WSub(WSub(max_task, 1), lri)
  IN  [tasks |-> max_task, chunk_size |-> cs,
       last_rank_index |-> lri, extra_tasks |-> ex]

mpi_first_task(r) == (r * chunk_size[r]) % WordMod

mpi_last_task(r) == WAdd((r * chunk_size[r]) % WordMod, WSub(chunk_size[r], 1))

ExtraTaskUnclamped(r) ==
  IF extra_tasks[r] > 0 THEN WAdd(WAdd(last_rank_index[r], r), 1) ELSE 0

ExtraTaskIgnoringRank(r) ==
  LET index == IF extra_tasks[r] > 0
               THEN WAdd(last_rank_index[r], 1)
               ELSE 0
  IN  IF index < tasks[r] THEN index ELSE 0

mpi_extra_task(r) ==
  LET index == IF extra_tasks[r] > 0
               THEN WAdd(WAdd(last_rank_index[r], r), 1)
               ELSE 0
  IN  IF index < tasks[r] THEN index ELSE 0

\* static initialisers of mpi_lib.c; comm_size is what mpi_init() resolved
InitTasks ==
  /\ comm_size \in 1 .. MaxSize
  /\ MsgIdle
  /\ WriteIdle
  /\ build = [mpi |-> TRUE, petsc |-> FALSE]
  /\ ExtIdle
  /\ etype = "d"
  /\ chunk_size = [r \in Ranks |-> 1]
  /\ tasks = [r \in Ranks |-> 1]
  /\ extra_tasks = [r \in Ranks |-> 0]
  /\ last_rank_index = [r \in Ranks |-> 0]
  /\ called = [r \in Ranks |-> FALSE]

\* process r calls mpi_set_tasks(max_task); ASSERT(max_task > 0) is the
\* caller's contract, so only positive arguments are drawn
mpi_set_tasks(r, max_task) ==
  LET res == SetTasksResult(max_task, comm_size)
  IN  /\ max_task > 0
      /\ tasks' = [tasks EXCEPT ![r] = res.tasks]
      /\ chunk_size' = [chunk_size EXCEPT ![r] = res.chunk_size]
      /\ last_rank_index' = [last_rank_index EXCEPT ![r] = res.last_rank_index]
      /\ extra_tasks' = [extra_tasks EXCEPT ![r] = res.extra_tasks]
      /\ called' = [called EXCEPT ![r] = TRUE]
      /\ UNCHANGED <<extVars, comm_size, msgVars, writeVars>>

NextTasks == \E r \in Ranks : \E max_task \in 1 .. MaxTask : mpi_set_tasks(r, max_task)

SpecTasks == InitTasks /\ [][NextTasks]_vars

\* every process has called mpi_set_tasks() with one and the same max_task
AllCalledSame == \A r \in Ranks : called[r] /\ tasks[r] = tasks[0]

\* the main chunk of rank r: every index i with first <= i <= last
MainChunk(r) == mpi_first_task(r) .. mpi_last_task(r)

\* a rank holds an extra task exactly under the callers' guard
HasExtra(r) == extra_tasks[r] > 0 /\ r < extra_tasks[r]

Owned(r) == MainChunk(r) \cup (IF HasExtra(r) THEN {mpi_extra_task(r)} ELSE {})

\* C1: once every process has called setTasks(maxTask), the index sets owned
\* by the processes (main chunk plus guarded extra task) are pairwise
\* disjoint and their union is exactly 0 .. maxTask-1.
C1_PartitionExact ==
  AllCalledSame =>
    /\ \A r1 \in Ranks : \A r2 \in Ranks :
         r1 # r2 => Owned(r1) \cap Owned(r2) = {}
    /\ UNION {Owned(r) : r \in Ranks} = 0 .. (tasks[0] - 1)

\* C2: once every process has called setTasks(maxTask), the ranks below
\* extra each hold the extra index lastMainIndex + rank + 1, these indices
\* are below maxTask, pairwise different and are exactly the leftover indices
\* maxTask-extra .. maxTask-1 (so extra <= size); a rank at or above extra is
\* handed the "no extra task" sentinel.
C2_ExtraLowestRanksFirst ==
  AllCalledSame =>
    LET ex == extra_tasks[0]
    IN  /\ \A r \in Ranks : extra_tasks[r] = ex
        /\ \A r \in Ranks :
             HasExtra(r) =>
               /\ mpi_extra_task(r) = WAdd(WAdd(last_rank_index[r], r), 1)
               /\ mpi_extra_task(r) < tasks[r]
        /\ \A r1 \in Ranks : \A r2 \in Ranks :
             (HasExtra(r1) /\ HasExtra(r2) /\ r1 # r2)
               => mpi_extra_task(r1) # mpi_extra_task(r2)
        /\ {mpi_extra_task(r) : r \in {q \in Ranks : HasExtra(q)}}
             = (tasks[0] - ex) .. (tasks[0] - 1)
        /\ \A r \in Ranks : ~HasExtra(r) => mpi_extra_task(r) = 0

\* C2 witness: a communicator where some ranks hold an extra task and some
\* do not, after all have called setTasks
C2_Witness ==
  /\ AllCalledSame
  /\ \E r1 \in Ranks : \E r2 \in Ranks : HasExtra(r1) /\ ~HasExtra(r2) /\ r1 >= 1

(***************************************************************************)
(* Gather-output protocol: mpi_vector_write().                             *)
(*                                                                         *)
(* Builds: USE_MPI with USE_PETSC (distributed vector), USE_MPI alone and  *)
(* neither macro (dense vector held whole by every process).               *)
(***************************************************************************)

\* ownership range [first, last) of rank r as VecSetSizes(PETSC_DECIDE) lays
\* out a vector of vlen elements: contiguous blocks, increasing with rank,
\* the first vlen % comm_size ranks holding one element more
VecFirst(r) == r * (vlen \div comm_size) + Min(r, vlen % comm_size)
VecLast(r) == VecFirst(r + 1)

\* element n of the vector
VecVal(n) == 1000 + n
\* what a read past the end of the dense buffer may yield
Garbage == 0 - 1

\* the preconditions asserted on entry of mpi_vector_write()
WriteAsserts ==
  /\ ASSERT(n_min > -1)
  /\ ASSERT(n_max > n_min)
  /\ ASSERT(n_max < vlen)

\* the process returns from mpi_vector_write()
WriteReturn(p) ==
  /\ pc' = [pc EXCEPT ![p] = "idle"]
  /\ ncalls' = [ncalls EXCEPT ![p] = @ + 1]

IndexSeqInclusive(lo, hi) == [k \in 1 .. (hi - lo + 2) |-> lo + k - 1]

\* the indices lo, lo+1, ..., hi in loop order
IndexSeq(lo, hi) == [k \in 1 .. (hi - lo + 1) |-> lo + k - 1]

\* entry of mpi_vector_write(): the assertions, then mpi_barrier() in the
\* PETSc build; the root always passes a stream
CallWrite(p) ==
  /\ pc[p] = "idle"
  /\ ncalls[p] < MaxCalls
  /\ IF ~WriteAsserts
     THEN /\ pc' = [pc EXCEPT ![p] = "halted"]
          /\ UNCHANGED bar
     ELSE IF build.petsc
     THEN /\ pc' = [pc EXCEPT ![p] = "in_barrier"]
          /\ bar' = [bar EXCEPT ![p] = @ + 1]
     ELSE /\ pc' = [pc EXCEPT ![p] = "w_dense"]
          /\ UNCHANGED bar
  /\ UNCHANGED <<extVars, partVars, build, ret, sarg, rarg, buf, hdr, dat, sent, log, etype,
                 vlen, n_min, n_max, wn, wfrom, ncalls, sink, fwrites>>

\* mpi_barrier(): MPI_Barrier returns once every process has entered it
mpi_barrier(p) ==
  /\ pc[p] = "in_barrier"
  /\ \A q \in Ranks : bar[q] >= bar[p]
  /\ pc' = [pc EXCEPT ![p] = "w_start"]
  /\ UNCHANGED <<extVars, partVars, build, ret, sarg, rarg, buf, hdr, dat, sent, log, etype, writeVars>>

\* rank 0 after the barrier: writes its own elements of the range if
\* n_min < last and returns if it is alone; otherwise sleep(0.010).  Then it
\* starts the drain loop at from = 1.
WriteRootOwn(p) ==
  /\ pc[p] = "w_start"
  /\ p = 0
  /\ IF n_min < VecLast(p)
     THEN LET own == IndexSeq(Max(n_min, VecFirst(p)), Min(n_max, VecLast(p)) - 1)
              out == [k \in 1 .. Len(own) |->
                        [val |-> VecVal(own[k]), from |-> 0,
                         call |-> ncalls[p] + 1, during |-> ncalls[p] + 1]]
          IN  /\ sink' = sink \o out
              /\ fwrites' = [fwrites EXCEPT ![p] = @ + Len(own)]
              /\ IF comm_size = 1
                 THEN /\ WriteReturn(p)
                      /\ UNCHANGED wfrom
                 ELSE /\ pc' = [pc EXCEPT ![p] = "w_drain"]
                      /\ wfrom' = 1
                      /\ UNCHANGED ncalls
     ELSE /\ pc' = [pc EXCEPT ![p] = "w_drain"]
          /\ wfrom' = 1
          /\ UNCHANGED <<sink, fwrites, ncalls>>
  /\ UNCHANGED <<extVars, partVars, build, ret, sarg, rarg, buf, hdr, dat, sent, log, etype,
                 vlen, n_min, n_max, wn, bar>>

\* the drain loop of rank 0: for each from, while mpi_inbox(from) call
\* mpi_receive(from, 1, 'd', &value); when from reaches comm_size, return
WriteDrain(p) ==
  /\ pc[p] = "w_drain"
  /\ IF wfrom < comm_size
     THEN IF mpi_inbox(p, wfrom)
          THEN /\ rarg' = [rarg EXCEPT ![p] = [from |-> wfrom, n |-> 1, type |-> "d",
                                               m |-> 0, hid |-> 0]]
               /\ pc' = [pc EXCEPT ![p] = "recv_hdr"]
               /\ ret' = [ret EXCEPT ![p] = "w_fwrite"]
               /\ UNCHANGED <<wfrom, ncalls>>
          ELSE /\ wfrom' = wfrom + 1
               /\ UNCHANGED <<rarg, pc, ret, ncalls>>
     ELSE /\ WriteReturn(p)
          /\ UNCHANGED <<rarg, ret, wfrom>>
  /\ UNCHANGED <<extVars, partVars, build, sarg, buf, hdr, dat, sent, log, etype,
                 vlen, n_min, n_max, wn, bar, sink, fwrites>>

\* rank 0 writes the value it has just received
WriteReceived(p) ==
  /\ pc[p] = "w_fwrite"
  /\ LET e == log[p][wfrom][Len(log[p][wfrom])]
     IN  sink' = Append(sink, [val |-> buf[p][1], from |-> wfrom,
                               call |-> e.call, during |-> ncalls[p] + 1])
  /\ fwrites' = [fwrites EXCEPT ![p] = @ + 1]
  /\ pc' = [pc EXCEPT ![p] = "w_drain"]
  /\ UNCHANGED <<extVars, partVars, build, ret, sarg, rarg, buf, hdr, dat, sent, log, etype,
                 vlen, n_min, n_max, wn, wfrom, bar, ncalls>>

\* a non-root rank after the barrier: returns if n_min >= last, else starts
\* its loop at n = max(n_min, first)
WriteNonRootStart(p) ==
  /\ pc[p] = "w_start"
  /\ p # 0
  /\ IF n_min >= VecLast(p)
     THEN /\ WriteReturn(p)
          /\ UNCHANGED wn
     ELSE /\ wn' = [wn EXCEPT ![p] = Max(n_min, VecFirst(p))]
          /\ pc' = [pc EXCEPT ![p] = "w_loop"]
          /\ UNCHANGED ncalls
  /\ UNCHANGED <<extVars, partVars, build, ret, sarg, rarg, buf, hdr, dat, sent, log, etype,
                 vlen, n_min, n_max, wfrom, bar, sink, fwrites>>

\* the loop of a non-root rank: mpi_send(0, 1, 'd', &value) for element n,
\* then ++n; return when n reaches min(n_max, last)
WriteNonRootLoop(p) ==
  /\ pc[p] = "w_loop"
  /\ IF wn[p] < Min(n_max, VecLast(p))
     THEN LET id == SendId(p, Len(sent[p]) + 1)
          IN  /\ sarg' = [sarg EXCEPT ![p] = [to |-> 0, n |-> 1, type |-> "d",
                                              data |-> <<VecVal(wn[p])>>, id |-> id,
                                              call |-> ncalls[p] + 1]]
              /\ sent' = [sent EXCEPT ![p] =
                            Append(@, [dst |-> 0, n |-> 1, id |-> id,
                                       data |-> <<VecVal(wn[p])>>,
                                       call |-> ncalls[p] + 1])]
              /\ wn' = [wn EXCEPT ![p] = @ + 1]
              /\ pc' = [pc EXCEPT ![p] = "send_hdr"]
              /\ ret' = [ret EXCEPT ![p] = "w_loop"]
              /\ UNCHANGED ncalls
     ELSE /\ WriteReturn(p)
          /\ UNCHANGED <<sarg, sent, wn, ret>>
  /\ UNCHANGED <<extVars, partVars, build, rarg, buf, hdr, dat, log, etype,
                 vlen, n_min, n_max, wfrom, bar, sink, fwrites>>

\* the build without PETSc: fwrite(v->data + n_min, sizeof(double), n_max,
\* stream) on every process.  Reading past the end of the buffer and writing
\* to a NULL stream (what a non-root process passes) are undefined: the
\* process crashes or goes on.
WriteDense(p) ==
  /\ pc[p] = "w_dense"
  /\ IF p = 0
     THEN \/ /\ n_min + n_max > vlen
             /\ pc' = [pc EXCEPT ![p] = "crashed"]
             /\ UNCHANGED <<sink, fwrites, ncalls>>
          \/ LET out == [k \in 1 .. n_max |->
                           [val |-> IF n_min + k - 1 < vlen
                                    THEN VecVal(n_min + k - 1) ELSE Garbage,
                            from |-> 0, call |-> ncalls[p] + 1,
                            during |-> ncalls[p] + 1]]
             IN  /\ sink' = sink \o out
                 /\ fwrites' = [fwrites EXCEPT ![p] = @ + n_max]
                 /\ WriteReturn(p)
     ELSE /\ fwrites' = [fwrites EXCEPT ![p] = @ + n_max]
          /\ UNCHANGED sink
          /\ \/ /\ pc' = [pc EXCEPT ![p] = "crashed"]
                /\ UNCHANGED ncalls
             \/ WriteReturn(p)
  /\ UNCHANGED <<extVars, partVars, build, ret, sarg, rarg, buf, hdr, dat, sent, log, etype,
                 vlen, n_min, n_max, wn, wfrom, bar>>

\* the state after mpi_init() and mpi_vector_alloc() in one of the builds,
\* with the half-open range [n_min, n_max) every process will ask for
InitWrite ==
  /\ build \in {[mpi |-> TRUE, petsc |-> TRUE], [mpi |-> TRUE, petsc |-> FALSE],
                [mpi |-> FALSE, petsc |-> FALSE]}
  /\ comm_size \in (IF build.mpi THEN 1 .. MaxProcs ELSE {1})
  /\ etype = "d"
  /\ PartIdle
  /\ MsgIdle
  /\ ExtIdle
  /\ wn = [r \in Ranks |-> 0]
  /\ wfrom = 0
  /\ bar = [r \in Ranks |-> 0]
  /\ ncalls = [r \in Ranks |-> 0]
  /\ sink = <<>>
  /\ fwrites = [r \in Ranks |-> 0]
  /\ vlen \in 1 .. MaxVecLen
  /\ n_min \in 0 .. (vlen - 1)
  /\ n_max \in (n_min + 1) .. vlen

NextWrite ==
  \/ \E p \in Ranks : CallWrite(p)
  \/ \E p \in Ranks : mpi_barrier(p)
  \/ \E p \in Ranks : WriteRootOwn(p)
  \/ \E p \in Ranks : WriteDrain(p)
  \/ \E p \in Ranks : WriteReceived(p)
  \/ \E p \in Ranks : WriteNonRootStart(p)
  \/ \E p \in Ranks : WriteNonRootLoop(p)
  \/ \E p \in Ranks : WriteDense(p)
  \/ \E p \in Ranks : mpi_send_header(p)
  \/ \E p \in Ranks : mpi_send_payload(p)
  \/ \E p \in Ranks : mpi_receive_header(p)
  \/ \E p \in Ranks : mpi_receive_payload(p)

SpecWrite == InitWrite /\ [][NextWrite]_vars

(***************************************************************************)
(* Properties of the typed messaging protocol (SpecMsg).                   *)
(***************************************************************************)

\* the mpi_send() call that produced the message with identity id
SentBy(s, id) == CHOOSE e \in {sent[s][k] : k \in 1 .. Len(sent[s])} : e.id = id

\* every payload reception recorded so far, with its source and destination
Receptions ==
  {<<d, s, k>> \in Ranks \X Ranks \X (1 .. MaxSends) : k <= Len(log[d][s])}

\* C8: one send(to, n, type, buf) matched by one receive(from, n', type,
\* outbuf) leaves outbuf[0 .. min(n,n')) equal to buf[0 .. min(n,n')) and the
\* elements of outbuf from min(n,n') on as they were, for every element type
\* and every n >= 1, n' >= 1.
C8_RoundTrip ==
  \A t \in Receptions :
    LET e == log[t[1]][t[2]][t[3]]
        snd == SentBy(t[2], e.hid)
        m == Min(snd.n, e.count)
    IN  /\ e.ok
        /\ e.did = e.hid
        /\ \A i \in 1 .. MaxLen :
             e.after[i] = IF i <= m THEN SendBuf(e.hid)[i] ELSE e.before[i]

\* C9: a receive with count elements matched by a send of senderLength
\* elements reads exactly min(count, senderLength) elements; with
\* count < senderLength it reads no more than count, raises no error and the
\* receiver is neither terminated nor blocked.
C9_TruncatingReceive ==
  /\ \A r \in Ranks : pc[r] # "aborted"
  /\ \A t \in Receptions :
       LET e == log[t[1]][t[2]][t[3]]
       IN  e.nread = Min(e.count, SentBy(t[2], e.hid).n)

\* C10: for every (source, destination) pair the destination's successive
\* receptions from that source deliver the source's sends to it in the order
\* in which the source issued them, none skipped, whatever the other sources
\* send in between.
C10_FifoPerPair ==
  \A d \in Ranks : \A s \in Ranks :
    LET toD == SelectSeq(sent[s], LAMBDA e : e.dst = d)
    IN  /\ Len(log[d][s]) <= Len(toD)
        /\ \A k \in 1 .. Len(log[d][s]) :
             /\ log[d][s][k].hid = toD[k].id
             /\ log[d][s][k].did = toD[k].id

\* C10 witness: a destination has taken two messages of one source and one
\* of another source
C10_Witness ==
  \E d \in Ranks : \E s1 \in Ranks : \E s2 \in Ranks :
    /\ s1 # s2
    /\ Len(log[d][s1]) >= 2
    /\ log[d][s1][1].ok /\ log[d][s1][2].ok
    /\ Len(log[d][s2]) >= 1

(***************************************************************************)
(* Properties of the gather-output protocol (SpecWrite).                   *)
(***************************************************************************)

Distributed == build.mpi /\ build.petsc

\* what the root's stream received during the c-th mpi_vector_write() call
SinkOf(c) == SelectSeq(sink, LAMBDA e : e.during = c)

\* the values of the elements [n_min, n_max), in index order
RangeSeq == [k \in 1 .. (n_max - n_min) |-> VecVal(n_min + k - 1)]

\* every process has returned from its c-th call
AllReturned(c) == \A r \in Ranks : ncalls[r] >= c

\* C3: distributed mode, two or more processes, contiguous increasing
\* ownership, FIFO channels: once every process has returned from a
\* writeRange(v, first, last, sink) call, the root's sink holds exactly
\* last - first values of that call, one for every index of [first, last)
\* and none twice.
C3_GatherComplete ==
  (Distributed /\ comm_size >= 2) =>
    \A c \in 1 .. MaxCalls :
      AllReturned(c) =>
        /\ Len(SinkOf(c)) = n_max - n_min
        /\ {SinkOf(c)[k].val : k \in 1 .. Len(SinkOf(c))}
             = {VecVal(i) : i \in n_min .. (n_max - 1)}

\* C4: a writeRange call with 0 <= first < last <= length passes every
\* precondition assertion: no process is halted by one.
C4_HalfOpenRangeAccepted ==
  \A r \in Ranks : pc[r] # "halted"

\* C5: in distributed mode the values one writeRange call appends to the sink
\* come by ascending source rank (the root's own first) and, within one
\* source rank, by ascending index; with contiguous increasing ownership they
\* are therefore ascending by global index (no value comes after one of a
\* higher index).
C5_SinkOrder ==
  Distributed =>
    \A c \in 1 .. MaxCalls :
      \A i \in 1 .. Len(SinkOf(c)) : \A j \in 1 .. Len(SinkOf(c)) :
        i < j =>
          /\ SinkOf(c)[i].from <= SinkOf(c)[j].from
          /\ SinkOf(c)[i].val <= SinkOf(c)[j].val

\* C6: in local mode (one process, dense backend) a writeRange call appends
\* exactly the last - first values v[first], ..., v[last-1], in that order,
\* which is what the distributed mode is to produce for the range, and reads
\* no element at an index >= last (so it cannot fail on such a read).
C6_LocalWritesRange ==
  (~build.petsc /\ comm_size = 1) =>
    /\ pc[0] # "crashed"
    /\ \A c \in 1 .. MaxCalls :
         ncalls[0] >= c => [k \in 1 .. Len(SinkOf(c)) |-> SinkOf(c)[k].val] = RangeSeq

\* C7: in every build and for every communicator size only rank 0 performs
\* writes on a sink during writeRange: a non-root process never calls fwrite
\* on its stream argument.
C7_OnlyRootWrites ==
  \A r \in Ranks : r # 0 => fwrites[r] = 0

(***************************************************************************)
(* Non-blocking probe: mpi_inbox().                                        *)
(***************************************************************************)

\* a process between two operations calls mpi_inbox(from): ASSERT_RANK(from),
\* then MPI_Iprobe, which returns at once with the flag
CallInbox(p, from) ==
  /\ pc[p] = "idle"
  /\ IF ~ASSERT_RANK(p, from)
     THEN /\ pc' = [pc EXCEPT ![p] = "halted"]
          /\ UNCHANGED inbox
     ELSE /\ inbox' = [inbox EXCEPT ![p] = [from |-> from, flag |-> mpi_inbox(p, from)]]
          /\ pc' = [pc EXCEPT ![p] = "probed"]
  /\ UNCHANGED <<partVars, writeVars, matVars, topoVars, backVars, libVars, memVars,
                 build, ret,
                 sarg, rarg, buf, hdr, dat, sent, log, etype>>

\* the caller has looked at the value mpi_inbox() returned
InboxReturn(p) ==
  /\ pc[p] = "probed"
  /\ inbox' = [inbox EXCEPT ![p] = NoProbe]
  /\ pc' = [pc EXCEPT ![p] = "idle"]
  /\ UNCHANGED <<partVars, writeVars, matVars, topoVars, backVars, libVars, memVars,
                 build, ret,
                 sarg, rarg, buf, hdr, dat, sent, log, etype>>

\* the state after mpi_init(); the messages are single doubles, as in
\* mpi_vector_write(), the one caller of mpi_inbox()
InitProbe ==
  /\ build \in {[mpi |-> TRUE, petsc |-> FALSE], [mpi |-> FALSE, petsc |-> FALSE]}
  /\ comm_size \in (IF build.mpi THEN 2 .. MaxProcs ELSE {1})
  /\ etype = "d"
  /\ PartIdle
  /\ MsgIdle
  /\ WriteIdle
  /\ ExtIdle

NextProbe ==
  \/ \E p \in Ranks : \E from \in Ranks : CallInbox(p, from)
  \/ \E p \in Ranks : InboxReturn(p)
  \/ \E p \in Ranks : \E to \in Ranks : CallSend(p, to, 1)
  \/ \E p \in Ranks : \E from \in Ranks : CallReceive(p, from, 1)
  \/ \E p \in Ranks : mpi_send_header(p)
  \/ \E p \in Ranks : mpi_send_payload(p)
  \/ \E p \in Ranks : mpi_receive_header(p)
  \/ \E p \in Ranks : mpi_receive_payload(p)

SpecProbe == InitProbe /\ [][NextProbe]_vars

\* the mpi_send() calls of s to d, in call order
SendsTo(s, d) == SelectSeq(sent[s], LAMBDA e : e.dst = d)

\* number of length headers s has transmitted to d: with USE_MPI one per
\* mpi_send() call to d, except a call that has not reached its first
\* MPI_Send yet; without USE_MPI mpi_send() transmits nothing
HeadersSent(s, d) ==
  IF build.mpi
  THEN Len(SendsTo(s, d)) - (IF pc[s] = "send_hdr" /\ sarg[s].to = d THEN 1 ELSE 0)
  ELSE 0

\* number of length headers d has received from s: one per completed
\* reception, and one for a reception that waits for its payload
HeadersTaken(d, s) ==
  Len(log[d][s]) + (IF pc[d] = "recv_dat" /\ rarg[d].from = s THEN 1 ELSE 0)

\* length headers sent by s to d and not yet received
PendingHeaders(s, d) == HeadersSent(s, d) - HeadersTaken(d, s)

\* C11: probe(from) never blocks, returns true exactly when a length header
\* sent by from to the caller is pending (sent and not yet received), and
\* leaves every channel and the caller's buffer as they were; the receive
\* that follows any number of probes takes the oldest pending message of its
\* source, the one it would have taken without them.
C11_ProbePure ==
  /\ [](\A p \in Ranks :
          /\ pc[p] = "idle" => \A from \in Ranks : ENABLED CallInbox(p, from)
          /\ pc[p] = "probed" => ENABLED InboxReturn(p))
  /\ [][\A p \in Ranks :
          /\ (pc[p] = "idle" /\ pc'[p] = "probed") =>
               /\ inbox'[p].flag = (PendingHeaders(inbox'[p].from, p) > 0)
               /\ UNCHANGED <<hdr, dat, buf, sent, log>>
          /\ (pc[p] = "recv_hdr" /\ pc'[p] = "recv_dat") =>
               rarg'[p].hid =
                 SendsTo(rarg[p].from, p)[HeadersTaken(p, rarg[p].from) + 1].id
       ]_vars

\* C11 witness: a probe has returned true for a source from which the caller
\* has already taken a message, while a probe of another process returned
\* false
C11_Witness ==
  \E p \in Ranks : \E q \in Ranks :
    /\ pc[p] = "probed" /\ inbox[p].flag
    /\ Len(log[p][inbox[p].from]) >= 1
    /\ pc[q] = "probed" /\ ~inbox[q].flag

(***************************************************************************)
(* Matrix handle: mpi_matrix_alloc(), mpi_matrix_set(), mpi_matrix_build(). *)
(*                                                                         *)
(* With USE_PETSC the handle wraps a PETSc AIJ matrix whose rows are laid   *)
(* out over the processes by PETSC_DECIDE; without it every process holds   *)
(* a dense max_row-by-max_col array of its own (matrix_alloc, matrix_set).  *)
(***************************************************************************)

\* ownership range [first, last) MatGetOwnershipRange() reports to rank r:
\* contiguous blocks of rows, increasing with rank, the first
\* max_row % comm_size ranks holding one row more
MatFirstNoRemainder(r) == r * (max_row \div comm_size)

MatFirst(r) == r * (max_row \div comm_size) + Min(r, max_row % comm_size)

MatLast(r) == MatFirst(r + 1)

\* the test of mpi_matrix_set(): (p >= m->first) && (p < m->last)
OwnsInclusive(r, row) == row >= MatFirst(r) /\ row <= MatLast(r)

Owns(r, row) == row >= MatFirst(r) /\ row < MatLast(r)

\* MatSetValue(..., INSERT_VALUES) and matrix_set(): the new value replaces
\* what the entry held
AddValue(old, x) == IF old = NoValue THEN x ELSE old + x

InsertValue(old, x) == x

\* DATA_OFFSET(m, p, q) of the dense matrix: index p*max_col + q of the array
DATA_OFFSET(p, q) == p * max_col + q

\* the entry an index of the dense array belongs to
EntryAt(n) == <<n \div max_col, n % max_col>>

\* process r calls mpi_matrix_set(m, p, q, x), the k-th call of the stream.
\* With USE_PETSC the row and column are asserted and the value is stored
\* only by the owner of the row.  Without it nothing is asserted
\* (ASSERT_ROW_INDEX and ASSERT_COL_INDEX are empty in mpi_lib.c, and in the
\* matrix module unless MATRIX_BOUND_CHECK is defined) and matrix_set()
\* writes the array at DATA_OFFSET(p, q): inside the array that is the entry
\* the index belongs to; past its end the write is undefined, the process
\* crashes or goes on.
mpi_matrix_set(r, k, p, q, x) ==
  /\ pc[r] = "idle"
  /\ ~built[r]
  /\ mpos[r] = k - 1
  /\ IF USE_PETSC
     THEN IF ~(ASSERT(p < max_row) /\ ASSERT(q < max_col))
          THEN /\ pc' = [pc EXCEPT ![r] = "halted"]
               /\ UNCHANGED <<mat, applied, mpos>>
          ELSE /\ mpos' = [mpos EXCEPT ![r] = k]
               /\ UNCHANGED pc
               /\ IF Owns(r, p)
                  THEN /\ mat' = [mat EXCEPT ![r][<<p, q>>] = InsertValue(@, x)]
                       /\ applied' = [applied EXCEPT ![k] = @ \cup {r}]
                  ELSE UNCHANGED <<mat, applied>>
     ELSE IF DATA_OFFSET(p, q) < max_row * max_col
          THEN /\ mat' = [mat EXCEPT ![r][EntryAt(DATA_OFFSET(p, q))] = InsertValue(@, x)]
               /\ applied' = [applied EXCEPT ![k] = @ \cup {r}]
               /\ mpos' = [mpos EXCEPT ![r] = k]
               /\ UNCHANGED pc
          ELSE /\ \/ /\ pc' = [pc EXCEPT ![r] = "crashed"]
                     /\ UNCHANGED mpos
                  \/ /\ mpos' = [mpos EXCEPT ![r] = k]
                     /\ UNCHANGED pc
               /\ UNCHANGED <<mat, applied>>
  /\ UNCHANGED <<partVars, writeVars, libVars, memVars, probeVars, topoVars, backVars, build, ret, sarg, rarg, buf, hdr, dat,
                 sent, log, etype, max_row, max_col, stream, assembled, built>>

\* the entries of a process's part of the matrix that reach the assembled one
Assemble(global, part) ==
  [e \in DOMAIN global |-> IF part[e] # NoValue THEN part[e] ELSE global[e]]

\* process r calls mpi_matrix_build(m) after its last mpi_matrix_set():
\* MatAssemblyBegin() hands its entries over; without USE_PETSC the function
\* is empty
mpi_matrix_build(r) ==
  /\ pc[r] = "idle"
  /\ ~built[r]
  /\ mpos[r] = Len(stream)
  /\ IF USE_PETSC
     THEN /\ assembled' = Assemble(assembled, mat[r])
          /\ pc' = [pc EXCEPT ![r] = "mat_asm"]
          /\ UNCHANGED built
     ELSE /\ built' = [built EXCEPT ![r] = TRUE]
          /\ UNCHANGED <<assembled, pc>>
  /\ UNCHANGED <<partVars, writeVars, libVars, memVars, probeVars, topoVars, backVars, build, ret, sarg, rarg, buf, hdr, dat,
                 sent, log, etype, max_row, max_col, stream, mpos, mat, applied>>

\* MatAssemblyEnd() is collective: it returns once every process has entered
\* the assembly
MatAssemblyEnd(r) ==
  /\ pc[r] = "mat_asm"
  /\ \A q \in Ranks : pc[q] = "mat_asm" \/ built[q]
  /\ built' = [built EXCEPT ![r] = TRUE]
  /\ pc' = [pc EXCEPT ![r] = "idle"]
  /\ UNCHANGED <<partVars, writeVars, libVars, memVars, probeVars, topoVars, backVars, build, ret, sarg, rarg, buf, hdr, dat,
                 sent, log, etype, max_row, max_col, stream, mpos, mat, assembled, applied>>

\* the k-th call of a stream stores the value k, so that a stored value names
\* the call it comes from
SetCalls(rows, cols) ==
  UNION {[1 .. n -> Positions(rows, cols)] : n \in 0 .. MaxSets}

\* the state after mpi_init() and mpi_matrix_alloc(max_row, max_col, ...) on
\* every process, and the stream of mpi_matrix_set() calls all of them issue
InitMat ==
  /\ build \in {[mpi |-> TRUE, petsc |-> TRUE], [mpi |-> TRUE, petsc |-> FALSE],
                [mpi |-> FALSE, petsc |-> FALSE]}
  /\ comm_size \in (IF build.mpi THEN 1 .. MaxProcs ELSE {1})
  /\ etype = "d"
  /\ PartIdle
  /\ MsgIdle
  /\ WriteIdle
  /\ ProbeIdle
  /\ TopoUp
  /\ BackIdle
  /\ LibIdle
  /\ MemIdle
  /\ max_row \in 1 .. MaxRow
  /\ max_col \in 1 .. MaxCol
  /\ \E calls \in SetCalls(max_row, max_col) :
       stream = [k \in DOMAIN calls |-> [p |-> calls[k][1], q |-> calls[k][2], x |-> k]]
  /\ MatFresh

NextMat ==
  \/ \E r \in Ranks : \E k \in 1 .. Len(stream) :
       mpi_matrix_set(r, k, stream[k].p, stream[k].q, stream[k].x)
  \/ \E r \in Ranks : mpi_matrix_build(r)
  \/ \E r \in Ranks : MatAssemblyEnd(r)

SpecMat == InitMat /\ [][NextMat]_vars

\* the owner of a row under the PETSC_DECIDE layout, computed from the block
\* sizes: the first max_row % comm_size ranks hold one row more
BlockSize(r) == (max_row \div comm_size) + (IF r < max_row % comm_size THEN 1 ELSE 0)

RECURSIVE RowsBefore(_)
RowsBefore(r) == IF r = 0 THEN 0 ELSE RowsBefore(r - 1) + BlockSize(r - 1)

InBlock(r, row) == RowsBefore(r) <= row /\ row < RowsBefore(r) + BlockSize(r)

\* C12: in distributed mode a setEntry(m, row, col, value) by a process whose
\* ownership range does not contain row changes nothing: the entries staged
\* by every process and the assembled matrix stay as they were.
C12_NonOwnerSetIsNoOp ==
  [][\A r \in Ranks :
       (build.petsc /\ mpos'[r] = mpos[r] + 1 /\ ~InBlock(r, stream[mpos'[r]].p))
         => UNCHANGED <<mat, assembled, applied>>]_vars

\* C12 witness: a process has made a call for a row it does not own and
\* holds no entry, while the owner has stored the value
C12_Witness ==
  /\ build.petsc
  /\ \E r \in Ranks : \E o \in Ranks :
       /\ mpos[r] >= 1
       /\ ~InBlock(r, stream[1].p)
       /\ \A e \in DOMAIN mat[r] : mat[r][e] = NoValue
       /\ mat[o][<<stream[1].p, stream[1].q>>] = 1

\* every process has made every call of the stream and has returned from
\* mpi_matrix_build()
AllBuilt == \A r \in Ranks : mpos[r] = Len(stream) /\ built[r]

\* the processes whose PETSC_DECIDE block holds the row
OwnersOf(row) == {r \in Ranks : InBlock(r, row)}

\* C13: the same stream of setEntry calls issued by every process of a
\* distributed run and followed by finalize: every row of [0, maxRow) has
\* exactly one owner, and each call is applied by exactly one process, the
\* owner of its row: no entry is lost, none is applied twice.
C13_OwnerAppliesOnce ==
  build.petsc =>
    /\ \A row \in 0 .. (max_row - 1) : Cardinality(OwnersOf(row)) = 1
    /\ \A k \in 1 .. Len(stream) :
         /\ applied[k] \subseteq OwnersOf(stream[k].p)
         /\ (\A r \in Ranks : mpos[r] >= k) => applied[k] = OwnersOf(stream[k].p)
    /\ AllBuilt =>
         \A k \in 1 .. Len(stream) :
           /\ Cardinality(applied[k]) = 1
           /\ assembled[<<stream[k].p, stream[k].q>>] # NoValue

\* C13 witness: three processes have finalized a stream whose calls went to
\* rows of two different owners
C13_Witness ==
  /\ build.petsc
  /\ comm_size >= 3
  /\ AllBuilt
  /\ \E j \in 1 .. Len(stream) : \E k \in 1 .. Len(stream) :
       applied[j] # applied[k] /\ applied[j] # {} /\ applied[k] # {}

\* the calls of the stream made for an entry, and the value of the last one
CallsFor(e) == {k \in 1 .. Len(stream) : <<stream[k].p, stream[k].q>> = e}

LastSet(e) == stream[CHOOSE k \in CallsFor(e) : \A j \in CallsFor(e) : j <= k].x

\* the matrix a process sees once finalized: the assembled PETSc matrix, or
\* its own dense array
Logical(r) == IF build.petsc THEN assembled ELSE mat[r]

CallBarrier(p) ==
  /\ pc[p] = "idle"
  /\ pc' = [pc EXCEPT ![p] = "b_in"]
  /\ IF USE_MPI
     THEN /\ bar[p] < MaxBarriers
          /\ bar' = [bar EXCEPT ![p] = @ + 1]
     ELSE UNCHANGED bar
  /\ UNCHANGED <<partVars, extVars, build, ret, sarg, rarg, buf, hdr, dat, sent, log,
                 etype, vlen, n_min, n_max, wn, wfrom, ncalls, sink, fwrites>>

\* MPI_Barrier returns without waiting for the other processes
BarrierReturnAlone(p) ==
  /\ pc[p] = "b_in"
  /\ pc' = [pc EXCEPT ![p] = "idle"]
  /\ UNCHANGED <<partVars, extVars, writeVars, build, ret, sarg, rarg, buf, hdr, dat, sent,
                 log, etype>>

\* the process returns from mpi_barrier(): MPI_Barrier returns once every
\* process has entered it
BarrierReturn(p) ==
  /\ pc[p] = "b_in"
  /\ USE_MPI => \A q \in Ranks : bar[q] >= bar[p]
  /\ pc' = [pc EXCEPT ![p] = "idle"]
  /\ UNCHANGED <<partVars, extVars, writeVars, build, ret, sarg, rarg, buf, hdr, dat, sent,
                 log, etype>>

\* the state after mpi_init() in a build with USE_MPI
InitBar ==
  /\ build \in {[mpi |-> TRUE, petsc |-> TRUE], [mpi |-> TRUE, petsc |-> FALSE]}
  /\ comm_size \in 1 .. MaxProcs
  /\ etype = "d"
  /\ PartIdle
  /\ MsgIdle
  /\ WriteIdle
  /\ ExtIdle

NextBar ==
  \/ \E p \in Ranks : CallBarrier(p)
  \/ \E p \in Ranks : BarrierReturn(p)

\* a process inside MPI_Barrier is not held there once the barrier is
\* complete; nothing obliges a process to call mpi_barrier()
SpecBarFair ==
  /\ InitBar
  /\ [][NextBar]_vars
  /\ \A p \in 0 .. (MaxProcs - 1) : WF_vars(p \in Ranks /\ BarrierReturn(p))

\* number of mpi_barrier() calls process p has returned from
Returned(p) == bar[p] - (IF pc[p] = "b_in" THEN 1 ELSE 0)

\* C15: no process returns from its k-th barrier() call before every process
\* has entered its k-th call, and once all of them have entered it every
\* process eventually returns from it.
C15_Barrier ==
  /\ [](\A p \in Ranks : \A q \in Ranks : Returned(p) <= bar[q])
  /\ \A k \in 1 .. MaxBarriers : \A p \in 0 .. (MaxProcs - 1) :
       (p \in Ranks /\ \A q \in Ranks : bar[q] >= k)
         ~> (p \in Ranks /\ Returned(p) >= k)

\* C15 witness: three processes have all returned from their second barrier
C15_Witness ==
  /\ comm_size >= 3
  /\ \A p \in Ranks : Returned(p) >= 2

(***************************************************************************)
(* Topology: mpi_init(), mpi_end(), mpi_rank(), mpi_comm_size(),           *)
(* mpi_thread_level(); the PETSc/SLEPc calls and CHECK_PETSC_ERROR().      *)
(***************************************************************************)

\* CHECK_PETSC_ERROR(name, code, stop): an error code is reported, and the
\* process exits if stop is true.  The value is "the process exits".
CheckNeverExits(code, stop) == FALSE

CHECK_PETSC_ERROR(code, stop) == code # 0 /\ stop

\* error codes for n calls of which at most one fails; after a failing call
\* checked with stop = true no further call is made
OneFailure(n) == {[i \in 1 .. n |-> IF i = f THEN 1 ELSE 0] : f \in 0 .. n}

\* error codes for n calls, any of which may fail
AnyFailures(n) == [1 .. n -> {0, 1}]

\* number of calls of a sequence of PETSc/SLEPc calls that are made when the
\* i-th returns codes[i] and each is checked with CHECK_PETSC_ERROR(.., stop)
RECURSIVE Executed(_, _, _)
Executed(codes, stop, i) ==
  IF i > Len(codes) THEN Len(codes)
  ELSE IF CHECK_PETSC_ERROR(codes[i], stop) THEN i
  ELSE Executed(codes, stop, i + 1)

\* the calls made, with their codes, and whether the last one made the
\* process exit
Backend(names, codes, stop) ==
  LET n == Executed(codes, stop, 1)
  IN  [calls |-> [i \in 1 .. n |-> [name |-> names[i], code |-> codes[i]]],
       exit |-> n > 0 /\ CHECK_PETSC_ERROR(codes[n], stop)]

InitCalls == <<"PetscInitialize", "SlepcInitialize">>
EndCalls == <<"SlepcFinalize", "PetscFinalize">>

\* the thread support levels MPI_Init_thread() may provide
ThreadLevels == 0 .. 3

\* process p calls mpi_init(): PetscInitialize() and SlepcInitialize()
\* checked with stop = true (USE_PETSC), then MPI_Init_thread() (USE_MPI
\* without USE_PETSC), MPI_Comm_rank() and MPI_Comm_size() (USE_MPI)
mpi_init(p, provided, codes) ==
  /\ pc[p] = "idle"
  /\ life[p] = "fresh"
  /\ LET b == IF USE_PETSC THEN Backend(InitCalls, codes, TRUE)
              ELSE [calls |-> <<>>, exit |-> FALSE]
     IN  /\ trace' = [trace EXCEPT ![p] = @ \o b.calls]
         /\ IF b.exit
            THEN /\ pc' = [pc EXCEPT ![p] = "exited"]
                 /\ UNCHANGED <<statics, life>>
            ELSE /\ statics' = [statics EXCEPT ![p] = InitResult(p, provided)]
                 /\ life' = [life EXCEPT ![p] = "inited"]
                 /\ UNCHANGED pc
  /\ UNCHANGED <<partVars, writeVars, libVars, memVars, probeVars, matVars, got, eig, build, ret, sarg, rarg,
                 buf, hdr, dat, sent, log, etype>>

\* process p calls mpi_end().  USE_MPI without USE_PETSC: MPI_Barrier, then
\* MPI_Finalize.  USE_PETSC: SlepcFinalize() and PetscFinalize(), both
\* checked with stop = false.
mpi_end(p, codes) ==
  /\ pc[p] = "idle"
  /\ life[p] = "inited"
  /\ IF USE_MPI /\ ~USE_PETSC
     THEN /\ pc' = [pc EXCEPT ![p] = "end_barrier"]
          /\ bar' = [bar EXCEPT ![p] = @ + 1]
          /\ UNCHANGED <<trace, life>>
     ELSE LET b == IF USE_PETSC THEN Backend(EndCalls, codes, FALSE)
                   ELSE [calls |-> <<>>, exit |-> FALSE]
          IN  /\ trace' = [trace EXCEPT ![p] = @ \o b.calls]
              /\ IF b.exit
                 THEN /\ pc' = [pc EXCEPT ![p] = "exited"]
                      /\ UNCHANGED life
                 ELSE /\ life' = [life EXCEPT ![p] = "ended"]
                      /\ UNCHANGED pc
              /\ UNCHANGED bar
  /\ UNCHANGED <<partVars, libVars, memVars, probeVars, matVars, statics, got, eig, build, ret, sarg, rarg,
                 buf, hdr, dat, sent, log, etype, vlen, n_min, n_max, wn, wfrom, ncalls,
                 sink, fwrites>>

\* mpi_end(), USE_MPI without USE_PETSC: MPI_Barrier returns once every
\* process has entered it, then MPI_Finalize
mpi_end_finalize(p) ==
  /\ pc[p] = "end_barrier"
  /\ \A q \in Ranks : bar[q] >= bar[p]
  /\ pc' = [pc EXCEPT ![p] = "idle"]
  /\ life' = [life EXCEPT ![p] = "ended"]
  /\ UNCHANGED <<partVars, writeVars, libVars, memVars, probeVars, matVars, backVars, statics, got, build,
                 ret, sarg, rarg, buf, hdr, dat, sent, log, etype>>

\* the accessors return one of the statics
Accessors == {"mpi_rank", "mpi_comm_size", "mpi_thread_level"}

AccessorValue(p, op) ==
  IF op = "mpi_rank" THEN statics[p].this_rank
  ELSE IF op = "mpi_comm_size" THEN statics[p].comm_size
  ELSE statics[p].thread_level

\* process p calls mpi_rank(), mpi_comm_size() or mpi_thread_level()
CallAccessor(p, op) ==
  /\ pc[p] = "idle"
  /\ got' = [got EXCEPT ![p] = [op |-> op, val |-> AccessorValue(p, op)]]
  /\ pc' = [pc EXCEPT ![p] = "got"]
  /\ UNCHANGED <<partVars, writeVars, libVars, memVars, probeVars, matVars, backVars, statics, life, build,
                 ret, sarg, rarg, buf, hdr, dat, sent, log, etype>>

\* the caller has taken the value an accessor or mpi_matrix_eigenpair() returned
TakeResult(p) ==
  /\ pc[p] = "got"
  /\ got' = [got EXCEPT ![p] = NoResult]
  /\ pc' = [pc EXCEPT ![p] = "idle"]
  /\ UNCHANGED <<partVars, writeVars, libVars, memVars, probeVars, matVars, backVars, statics, life, build,
                 ret, sarg, rarg, buf, hdr, dat, sent, log, etype>>

\* the processes as they are started: the statics hold their initialisers
TopoFresh ==
  /\ statics = [r \in Ranks |-> StaticsFresh]
  /\ life = [r \in Ranks |-> "fresh"]
  /\ got = [r \in Ranks |-> NoResult]

\* any build, any number of processes, nothing called yet
InitTopo ==
  /\ build \in {[mpi |-> TRUE, petsc |-> TRUE], [mpi |-> TRUE, petsc |-> FALSE],
                [mpi |-> FALSE, petsc |-> FALSE]}
  /\ comm_size \in (IF build.mpi THEN 1 .. MaxTopoProcs ELSE {1})
  /\ etype = "d"
  /\ PartIdle
  /\ MsgIdle
  /\ WriteIdle
  /\ ProbeIdle
  /\ MatIdle
  /\ BackIdle
  /\ LibIdle
  /\ MemIdle
  /\ TopoFresh

\* the operations that follow mpi_init() are called by a process that has
\* returned from it and has not called mpi_end()
Up(p) == life[p] = "inited"

NextTopo ==
  \/ \E p \in Ranks : \E provided \in ThreadLevels : \E codes \in OneFailure(Len(InitCalls)) :
       mpi_init(p, provided, codes)
  \/ \E p \in Ranks : \E op \in Accessors : CallAccessor(p, op)
  \/ \E p \in Ranks : TakeResult(p)
  \/ \E p \in Ranks : Up(p) /\ mpi_set_tasks(p, MaxTask)
  \/ \E p \in Ranks : \E from \in Ranks : Up(p) /\ CallInbox(p, from)
  \/ \E p \in Ranks : InboxReturn(p)
  \/ \E p \in Ranks : \E codes \in AnyFailures(Len(EndCalls)) : mpi_end(p, codes)
  \/ \E p \in Ranks : mpi_end_finalize(p)

SpecTopo == InitTopo /\ [][NextTopo]_vars

\* C16: in every state, before mpi_init(), after it and after any operation,
\* rank < size and size >= 1 on every process; the only operation that
\* changes the rank, the size or the thread level of a process is its
\* mpi_init(), and the accessors return them as they are.
C16_TopologyInvariant ==
  /\ [](\A p \in Ranks :
          /\ statics[p].this_rank < statics[p].comm_size
          /\ statics[p].comm_size >= 1
          /\ life[p] # "fresh" =>
               (statics[p].this_rank = (IF USE_MPI THEN p ELSE 0)
                /\ statics[p].comm_size = comm_size)
          /\ pc[p] = "got" => got[p].val = AccessorValue(p, got[p].op))
  /\ [][\A p \in Ranks :
          statics'[p] # statics[p] => (life[p] = "fresh" /\ life'[p] = "inited")]_vars

\* C16 witness: the last rank of a communicator of two or more has
\* initialised, set its tasks and reads its rank, while another process has
\* not initialised yet
C16_Witness ==
  /\ comm_size >= 2
  /\ LET p == comm_size - 1
     IN  /\ pc[p] = "got" /\ got[p] = [op |-> "mpi_rank", val |-> p]
         /\ called[p]
  /\ \E q \in Ranks : life[q] = "fresh"

(***************************************************************************)
(* Eigensolver: mpi_matrix_sparse_eigen(), mpi_matrix_eigenpair().         *)
(*                                                                         *)
(* The matrix module is built as the Makefile builds it, without            *)
(* MATRIX_BOUND_CHECK: its ASSERT_ROW_INDEX and ASSERT_COL_INDEX are empty. *)
(***************************************************************************)

EigenCalls ==
  <<"EPSCreate", "EPSSetOperators", "EPSSetDimensions", "EPSSetProblemType",
    "EPSSetWhichEigenpairs", "EPSSetType", "EPSSetTolerances", "EPSSolve",
    "EPSGetConverged">>

\* matrix_rows(m->data) of the local matrix
matrix_rows == max_row

SolveResultAsRequested(n, nconv) == IF USE_PETSC THEN nconv ELSE Min(n, matrix_rows)

\* the value mpi_matrix_sparse_eigen() returns: with USE_PETSC the nconv
\* EPSGetConverged() stored, without it matrix_rows(m->data)
SolveResult(n, nconv) == IF USE_PETSC THEN nconv ELSE matrix_rows

\* the arguments n, max_step, tol and up of one mpi_matrix_sparse_eigen() call
SolveArgs(n, max_step, tol, up) == [n |-> n, max_step |-> max_step, tol |-> tol, up |-> up]

\* process p calls mpi_matrix_sparse_eigen(m, n, max_step, tol, up):
\* ASSERT(n > 0) and ASSERT(max_step > 0), then with USE_PETSC the SLEPc
\* calls, each checked with stop = true, the last of which stores the number
\* nconv of converged eigenpairs; without it matrix_symm_eigen() fills
\* m->eigenval.  A handle is solved once with USE_PETSC.
mpi_matrix_sparse_eigen(p, n, max_step, tol, up, nconv, codes) ==
  /\ pc[p] = "idle"
  /\ USE_PETSC => eig[p] = "none"
  /\ IF ~(ASSERT(n > 0) /\ ASSERT(max_step > 0))
     THEN /\ pc' = [pc EXCEPT ![p] = "halted"]
          /\ UNCHANGED <<trace, eig, got>>
     ELSE LET b == IF USE_PETSC THEN Backend(EigenCalls, codes, TRUE)
                   ELSE [calls |-> <<>>, exit |-> FALSE]
          IN  /\ trace' = [trace EXCEPT ![p] = @ \o b.calls]
              /\ IF b.exit
                 THEN /\ pc' = [pc EXCEPT ![p] = "exited"]
                      /\ UNCHANGED <<eig, got>>
                 ELSE /\ eig' = [eig EXCEPT ![p] = "solved"]
                      /\ pc' = [pc EXCEPT ![p] = "got"]
                      /\ got' = [got EXCEPT ![p] =
                                   [op |-> "mpi_matrix_sparse_eigen",
                                    val |-> SolveResult(n, nconv),
                                    args |-> SolveArgs(n, max_step, tol, up)]]
  /\ UNCHANGED <<partVars, writeVars, libVars, memVars, probeVars, matVars, statics, life, build, ret, sarg,
                 rarg, buf, hdr, dat, sent, log, etype>>

\* one valid argument list of mpi_matrix_sparse_eigen()
OneSolve == SolveArgs(1, 1, 0, FALSE)

\* the PETSc/SLEPc build, nothing called yet
InitBackend ==
  /\ build = [mpi |-> TRUE, petsc |-> TRUE]
  /\ comm_size \in 1 .. MaxTopoProcs
  /\ etype = "d"
  /\ PartIdle
  /\ MsgIdle
  /\ WriteIdle
  /\ ProbeIdle
  /\ MatIdle
  /\ BackIdle
  /\ LibIdle
  /\ MemIdle
  /\ TopoFresh

NextBackend ==
  \/ \E p \in Ranks : \E provided \in {MPI_THREAD_SERIALIZED} :
       \E codes \in OneFailure(Len(InitCalls)) : mpi_init(p, provided, codes)
  \/ \E p \in Ranks : \E codes \in OneFailure(Len(EigenCalls)) : \E nconv \in 0 .. OneSolve.n :
       Up(p) /\ mpi_matrix_sparse_eigen(p, OneSolve.n, OneSolve.max_step, OneSolve.tol,
                                        OneSolve.up, nconv, codes)
  \/ \E p \in Ranks : \E codes \in AnyFailures(Len(EndCalls)) : mpi_end(p, codes)
  \/ \E p \in Ranks : \E op \in Accessors : life[p] = "ended" /\ CallAccessor(p, op)
  \/ \E p \in Ranks : TakeResult(p)

SpecBackend == InitBackend /\ [][NextBackend]_vars

\* the calls of process p that returned an error code, by position in its trace
Failures(p) == {i \in 1 .. Len(trace[p]) : trace[p][i].code # 0}

\* the call was the last thing the process did: it has exited on it
FatalAt(p, i) == i = Len(trace[p]) /\ pc[p] = "exited"

Teardown == {EndCalls[i] : i \in 1 .. Len(EndCalls)}

\* C17 as stated: a backend error during topology initialisation, teardown
\* or an eigensolver call terminates the process, which executes no further
\* operation.
C17_BackendErrorsFatal ==
  \A p \in Ranks : \A i \in Failures(p) : FatalAt(p, i)

\* C17 amended: a backend error during topology initialisation or an
\* eigensolver call terminates the process, which executes no further
\* operation; an error of a teardown call is reported only: the process makes
\* the remaining teardown call and returns from mpi_end().
C17_InitAndSolverErrorsFatal ==
  \A p \in Ranks : \A i \in Failures(p) :
    IF trace[p][i].name \in Teardown
    THEN /\ pc[p] # "exited"
         /\ life[p] = "ended"
         /\ trace[p][Len(trace[p])].name = EndCalls[Len(EndCalls)]
    ELSE FatalAt(p, i)

\* C17 witness: one process has exited on a failed EPSSolve(), another has
\* returned from mpi_end() after SlepcFinalize() failed and reads its rank
C17_Witness ==
  \E p \in Ranks : \E q \in Ranks :
    /\ pc[p] = "exited"
    /\ trace[p][Len(trace[p])] = [name |-> "EPSSolve", code |-> 1]
    /\ life[q] = "ended"
    /\ \E i \in Failures(q) : trace[q][i].name = "SlepcFinalize"
    /\ pc[q] = "got"

(***************************************************************************)
(* Error handling of the messaging calls (SpecMsg).                        *)
(***************************************************************************)

\* the run uses an element type outside 'i', 'c', 'f', 'd'
InvalidType == etype \notin {"i", "c", "f", "d"}

\* process p leaves the first part of mpi_send() or mpi_receive()
LeavesCall(p) == pc[p] \in {"send_hdr", "recv_hdr"} /\ pc'[p] # pc[p]

\* C18 as stated: send and receive called with an element type outside
\* {'i', 'c', 'f', 'd'} terminate the calling process instead of returning.
C18_InvalidTypeExits ==
  [][\A p \in Ranks : (InvalidType /\ LeavesCall(p)) => pc'[p] = "exited"]_vars

\* C18 amended: in a build with USE_MPI, send and receive called with an
\* element type outside {'i', 'c', 'f', 'd'} never return: the only way out
\* of the call is the termination of the process (a send after its length
\* header is transmitted, a receive once it has taken a length header), no
\* payload is sent or read and no buffer is written.  Without USE_MPI both
\* functions are empty and return.
C18_InvalidTypeExitsWithMpi ==
  /\ [][\A p \in Ranks :
          /\ (USE_MPI /\ InvalidType /\ LeavesCall(p)) => pc'[p] = "exited"
          /\ (~USE_MPI /\ LeavesCall(p)) => pc'[p] = ret[p]]_vars
  /\ [](InvalidType =>
          \A p \in Ranks :
            /\ pc[p] \notin {"send_dat", "recv_dat"}
            /\ buf[p] = [i \in 1 .. MaxLen |-> 0]
            /\ \A q \in Ranks : dat[p][q] = <<>>)

\* C18 witness: with USE_MPI and an unsupported type a sender has exited
\* after transmitting its header and the receiver has exited after taking it
C18_Witness ==
  /\ USE_MPI
  /\ InvalidType
  /\ \E p \in Ranks : \E q \in Ranks :
       /\ pc[p] = "exited" /\ sarg[p].to = q /\ sarg[p].id # 0
       /\ pc[q] = "exited" /\ rarg[q].from = p /\ rarg[q].hid = sarg[p].id

(***************************************************************************)
(* Caller-contract violations: the assertions on ranks and on matrix       *)
(* indices.                                                                *)
(***************************************************************************)

PairCalls == <<"MatCreateVecs", "VecGetSize", "VecGetOwnershipRange", "EPSGetEigenpair">>

\* the n-th eigenvalue
EigenVal(n) == 2000 + n

\* number of mpi_matrix_eigenpair() calls of process p that reached PETSc
PairsOf(p) == Len(SelectSeq(trace[p], LAMBDA c : c.name = PairCalls[1]))

\* process p calls mpi_matrix_eigenpair(m, n, &eigenval).  With USE_PETSC:
\* ASSERT_COL_INDEX(m, n), then the PETSc/SLEPc calls, each checked with
\* stop = true; EPSGetEigenpair() fails on a solver mpi_matrix_sparse_eigen()
\* has not run.  Without USE_PETSC ASSERT_COL_INDEX is empty: after
\* ASSERT(m->eigenval != NULL) the function reads m->eigenval[n] and column
\* n of the array; for n outside the matrix these reads are undefined, the
\* process crashes or returns what lies there.
mpi_matrix_eigenpair(p, n, codes) ==
  /\ pc[p] = "idle"
  /\ IF USE_PETSC
     THEN IF ~ASSERT(n < max_col)
          THEN /\ pc' = [pc EXCEPT ![p] = "halted"]
               /\ UNCHANGED <<got, trace>>
          ELSE LET given == [i \in 1 .. Len(PairCalls) |->
                               IF i = Len(PairCalls) /\ eig[p] = "none" THEN 1
                               ELSE codes[i]]
                   b == Backend(PairCalls, given, TRUE)
               IN  /\ PairsOf(p) < MaxPairs
                   /\ trace' = [trace EXCEPT ![p] = @ \o b.calls]
                   /\ IF b.exit
                      THEN /\ pc' = [pc EXCEPT ![p] = "exited"]
                           /\ UNCHANGED got
                      ELSE /\ pc' = [pc EXCEPT ![p] = "got"]
                           /\ got' = [got EXCEPT ![p] = [op |-> "mpi_matrix_eigenpair",
                                                         val |-> EigenVal(n)]]
     ELSE /\ UNCHANGED trace
          /\ IF ~ASSERT(eig[p] = "solved")
             THEN /\ pc' = [pc EXCEPT ![p] = "halted"]
                  /\ UNCHANGED got
             ELSE IF n < max_row /\ n < max_col
             THEN /\ pc' = [pc EXCEPT ![p] = "got"]
                  /\ got' = [got EXCEPT ![p] = [op |-> "mpi_matrix_eigenpair",
                                                val |-> EigenVal(n)]]
             ELSE \/ /\ pc' = [pc EXCEPT ![p] = "crashed"]
                     /\ UNCHANGED got
                  \/ /\ pc' = [pc EXCEPT ![p] = "got"]
                     /\ got' = [got EXCEPT ![p] = [op |-> "mpi_matrix_eigenpair",
                                                   val |-> Garbage]]
  /\ UNCHANGED <<partVars, writeVars, libVars, memVars, probeVars, matVars, statics, life, eig, build, ret,
                 sarg, rarg, buf, hdr, dat, sent, log, etype>>

\* one mpi_matrix_set() call whose row and column may lie one past the matrix
AnySetCall(rows, cols) == [1 .. 1 -> Positions(rows + 1, cols + 1)]

\* the state after mpi_init() and mpi_matrix_alloc() on a square matrix, with
\* the mpi_matrix_set() call every process will make
InitContract ==
  /\ build \in {[mpi |-> TRUE, petsc |-> TRUE], [mpi |-> TRUE, petsc |-> FALSE],
                [mpi |-> FALSE, petsc |-> FALSE]}
  /\ comm_size \in (IF build.mpi THEN 1 .. MaxTopoProcs ELSE {1})
  /\ etype = "d"
  /\ PartIdle
  /\ MsgIdle
  /\ WriteIdle
  /\ ProbeIdle
  /\ TopoUp
  /\ BackIdle
  /\ LibIdle
  /\ MemIdle
  /\ max_row \in 1 .. MaxCol
  /\ max_col = max_row
  /\ \E calls \in AnySetCall(max_row, max_col) :
       stream = [k \in DOMAIN calls |-> [p |-> calls[k][1], q |-> calls[k][2], x |-> k]]
  /\ MatFresh

\* the messaging calls are handed the first rank that is no rank of the
\* communicator; the matrix calls are handed valid indices and indices one
\* past the matrix
NextContract ==
  \/ \E p \in Ranks : CallInbox(p, comm_size)
  \/ \E p \in Ranks : CallSend(p, comm_size, 1)
  \/ \E p \in Ranks : CallReceive(p, comm_size, 1)
  \/ \E r \in Ranks : \E k \in 1 .. Len(stream) :
       mpi_matrix_set(r, k, stream[k].p, stream[k].q, stream[k].x)
  \/ \E p \in Ranks : \E codes \in {[i \in 1 .. Len(EigenCalls) |-> 0]} :
       eig[p] = "none" /\ mpi_matrix_sparse_eigen(p, OneSolve.n, OneSolve.max_step,
                                                  OneSolve.tol, OneSolve.up, max_col, codes)
  \/ \E p \in Ranks : \E n \in 0 .. max_col :
       \E codes \in {[i \in 1 .. Len(PairCalls) |-> 0]} : mpi_matrix_eigenpair(p, n, codes)
  \/ \E p \in Ranks : TakeResult(p)

SpecContract == InitContract /\ [][NextContract]_vars

\* C19: every caller-contract violation halts the calling process by
\* assertion before any state is changed, in the distributed and in the local
\* backend: no call with a rank >= size (probe, send, receive), with a
\* row >= maxRow or col >= maxCol (setEntry) or with an index >= the number
\* of columns (getEigenpair) gets past its assertions, none crashes the
\* process, and the step that halts a process changes nothing else.
C19_ViolationsHaltFirst ==
  /\ [](\A p \in Ranks :
          /\ pc[p] # "crashed"
          /\ pc[p] = "probed" => inbox[p].from < comm_size
          /\ pc[p] \in {"send_hdr", "send_dat"} => sarg[p].to < comm_size
          /\ pc[p] \in {"recv_hdr", "recv_dat"} => rarg[p].from < comm_size
          /\ \A k \in 1 .. mpos[p] : stream[k].p < max_row /\ stream[k].q < max_col
          /\ (pc[p] = "got" /\ got[p].op = "mpi_matrix_eigenpair")
               => got[p].val \in {EigenVal(n) : n \in 0 .. (max_col - 1)})
  /\ [][\A p \in Ranks :
          (pc[p] # "halted" /\ pc'[p] = "halted") =>
            /\ \A q \in Ranks : q # p => pc'[q] = pc[q]
            /\ UNCHANGED <<partVars, writeVars, extVars, build, ret, sarg, rarg, buf, hdr,
                           dat, sent, log, etype>>]_vars

(***************************************************************************)
(* The build without USE_MPI: every function of the messaging layer is     *)
(* compiled to an empty body after its assertions.                         *)
(***************************************************************************)

\* the caller's buffer holds whatever the caller has put there
BufferContents == [1 .. MaxLen -> 0 .. 1]

\* one process of a build without USE_MPI as it is started
InitInert ==
  /\ build = [mpi |-> FALSE, petsc |-> FALSE]
  /\ comm_size = 1
  /\ etype \in TypeArgs
  /\ PartIdle
  /\ pc = [r \in Ranks |-> "idle"]
  /\ ret = [r \in Ranks |-> "idle"]
  /\ sarg = [r \in Ranks |-> NoSend]
  /\ rarg = [r \in Ranks |-> NoRecv]
  /\ buf \in [Ranks -> BufferContents]
  /\ hdr = [s \in Ranks |-> [d \in Ranks |-> <<>>]]
  /\ dat = [s \in Ranks |-> [d \in Ranks |-> <<>>]]
  /\ sent = [s \in Ranks |-> <<>>]
  /\ log = [d \in Ranks |-> [s \in Ranks |-> <<>>]]
  /\ WriteIdle
  /\ ProbeIdle
  /\ MatIdle
  /\ BackIdle
  /\ LibIdle
  /\ MemIdle
  /\ TopoFresh

\* every operation is called by the process between two operations
NextInert ==
  \/ \E p \in Ranks : \E provided \in ThreadLevels :
       mpi_init(p, provided, [i \in 1 .. Len(InitCalls) |-> 0])
  \/ \E p \in Ranks : \E max_task \in 0 .. MaxTask :
       Up(p) /\ pc[p] = "idle" /\ mpi_set_tasks(p, max_task)
  \/ \E p \in Ranks : \E op \in Accessors : CallAccessor(p, op)
  \/ \E p \in Ranks : TakeResult(p)
  \/ \E p \in Ranks : \E from \in Ranks : Up(p) /\ CallInbox(p, from)
  \/ \E p \in Ranks : InboxReturn(p)
  \/ \E p \in Ranks : \E to \in Ranks : \E n \in 1 .. MaxLen : Up(p) /\ CallSend(p, to, n)
  \/ \E p \in Ranks : mpi_send_header(p)
  \/ \E p \in Ranks : \E from \in Ranks : \E n \in 1 .. MaxLen :
       Up(p) /\ CallReceive(p, from, n)
  \/ \E p \in Ranks : mpi_receive_header(p)
  \/ \E p \in Ranks : Up(p) /\ CallBarrier(p)
  \/ \E p \in Ranks : BarrierReturn(p)

SpecInert == InitInert /\ [][NextInert]_vars

\* the positions of a process inside mpi_inbox(), mpi_send(), mpi_receive()
\* and mpi_barrier()
InMessaging == {"probed", "send_hdr", "recv_hdr", "b_in"}

\* C20: without USE_MPI every process has rank 0 and communicator size 1 in
\* every state; mpi_inbox() returns false; a process inside mpi_send(),
\* mpi_receive() or mpi_barrier() can always return, and its next step is the
\* return to the caller with nothing transmitted; no step of a messaging call
\* changes the caller's buffer, the rank, size or thread level, or the
\* statics of the partitioner.
C20_InertWithoutMpi ==
  /\ [](\A p \in Ranks :
          /\ statics[p].this_rank = 0
          /\ statics[p].comm_size = 1
          /\ pc[p] = "probed" => ~inbox[p].flag
          /\ pc[p] = "send_hdr" => ENABLED mpi_send_header(p)
          /\ pc[p] = "recv_hdr" => ENABLED mpi_receive_header(p)
          /\ pc[p] = "b_in" => ENABLED BarrierReturn(p)
          /\ pc[p] \notin {"send_dat", "recv_dat", "halted", "exited", "aborted"})
  /\ [][\A p \in Ranks :
          /\ (pc[p] \in InMessaging /\ pc'[p] # pc[p]) => pc'[p] = "idle"
          /\ (pc[p] \in InMessaging \/ pc'[p] \in InMessaging) =>
               UNCHANGED <<buf, statics, partVars, hdr, dat, log, bar>>]_vars

\* a process whose buffer holds data and whose partition is set has sent,
\* and is now inside mpi_receive()
C20_Witness ==
  \E p \in Ranks :
    /\ ~USE_MPI
    /\ pc[p] = "recv_hdr"
    /\ Len(sent[p]) >= 1
    /\ called[p]
    /\ buf[p][1] = 1

(***************************************************************************)
(* Task partitioner, called collectively: every process calls              *)
(* mpi_set_tasks() once with one and the same max_task, then the three     *)
(* index functions.                                                        *)
(***************************************************************************)

TaskFunctions == {"mpi_first_task", "mpi_last_task", "mpi_extra_task"}

TaskValue(p, op) ==
  IF op = "mpi_first_task" THEN mpi_first_task(p)
  ELSE IF op = "mpi_last_task" THEN mpi_last_task(p)
  ELSE mpi_extra_task(p)

\* process p calls mpi_set_tasks(max_task), the value the other processes
\* have passed
SetTasksJointly(p, max_task) ==
  /\ pc[p] = "idle"
  /\ ~called[p]
  /\ \A q \in Ranks : called[q] => tasks[q] = max_task
  /\ mpi_set_tasks(p, max_task)

\* process p calls mpi_first_task(), mpi_last_task() or mpi_extra_task()
\* after its mpi_set_tasks()
CallTask(p, op) ==
  /\ pc[p] = "idle"
  /\ called[p]
  /\ got' = [got EXCEPT ![p] = [op |-> op, val |-> TaskValue(p, op)]]
  /\ pc' = [pc EXCEPT ![p] = "got"]
  /\ UNCHANGED <<partVars, writeVars, libVars, memVars, probeVars, matVars, backVars, statics, life, build,
                 ret, sarg, rarg, buf, hdr, dat, sent, log, etype>>

\* the state after mpi_init() in a communicator of any size
InitChunks ==
  /\ build = [mpi |-> TRUE, petsc |-> FALSE]
  /\ comm_size \in 1 .. MaxSize
  /\ etype = "d"
  /\ PartIdle
  /\ MsgIdle
  /\ WriteIdle
  /\ ExtIdle

NextChunks ==
  \/ \E p \in Ranks : \E max_task \in 1 .. MaxJointTask : SetTasksJointly(p, max_task)
  \/ \E p \in Ranks : \E op \in TaskFunctions : CallTask(p, op)
  \/ \E p \in Ranks : TakeResult(p)

SpecChunks == InitChunks /\ [][NextChunks]_vars

\* the value process p holds as the return value of the task function op
TaskReturned(p, op) == pc[p] = "got" /\ got[p].op = op

\* C21: when maxTask < size and every process has called setTasks(maxTask),
\* chunkSize is 0 on every process, no index i satisfies
\* firstTask() <= i <= lastTask() on any rank, and each task of
\* 0 .. maxTask-1 is the guarded extra task of exactly one rank.
C21_SmallTaskCount ==
  (AllCalledSame /\ tasks[0] < comm_size) =>
    /\ \A r \in Ranks : chunk_size[r] = 0
    /\ \A r \in Ranks :
         ~\E i \in 0 .. (WordMod - 1) : mpi_first_task(r) <= i /\ i <= mpi_last_task(r)
    /\ \A t \in 0 .. (tasks[0] - 1) :
         Cardinality({r \in Ranks : HasExtra(r) /\ mpi_extra_task(r) = t}) = 1

\* C22: after setTasks(maxTask), with chunkSize = maxTask / size (integer
\* division), firstTask() returns rank*chunkSize and lastTask() returns
\* rank*chunkSize + chunkSize - 1 on every rank, so firstTask() is 0 on
\* rank 0; for size = 4 and maxTask = 10 the chunks are {0,1}, {2,3}, {4,5},
\* {6,7}, lastMainIndex is 7, extra is 2, the extra task is 8 on rank 0 and
\* 9 on rank 1, and ranks 2 and 3 have no extra task.
C22_ChunkBounds ==
  \A p \in Ranks :
    LET cs == tasks[p] \div comm_size
    IN  /\ TaskReturned(p, "mpi_first_task") =>
             /\ got[p].val = p * cs
             /\ p = 0 => got[p].val = 0
        /\ TaskReturned(p, "mpi_last_task") => got[p].val = p * cs + cs - 1
        /\ (called[p] /\ comm_size = 4 /\ tasks[p] = 10) =>
             /\ chunk_size[p] = 2
             /\ MainChunk(p) = {2 * p, 2 * p + 1}
             /\ last_rank_index[p] = 7
             /\ extra_tasks[p] = 2
             /\ HasExtra(p) <=> p \in {0, 1}
             /\ TaskReturned(p, "mpi_extra_task") =>
                  got[p].val = (IF p = 0 THEN 8 ELSE IF p = 1 THEN 9 ELSE 0)

\* the leftover tasks size*chunkSize .. maxTask-1 go to the lowest ranks, one
\* each: rank p owns one iff p < maxTask mod size
OwnsLeftover(p) == p < tasks[p] % comm_size

\* C23: after setTasks(maxTask), extraTask() returns 0 on every process
\* with extra = 0 or rank >= extra; the guard extra > 0 and rank < extra
\* holds on exactly the processes that own a leftover task, which is then
\* the value returned; a process that owns an extra task is returned 0 only
\* if it is rank 0 and maxTask < size.
C23_ExtraTaskSentinel ==
  \A p \in Ranks :
    called[p] =>
      /\ (extra_tasks[p] = 0 \/ p >= extra_tasks[p]) =>
           /\ mpi_extra_task(p) = 0
           /\ TaskReturned(p, "mpi_extra_task") => got[p].val = 0
      /\ HasExtra(p) <=> OwnsLeftover(p)
      /\ (HasExtra(p) /\ TaskReturned(p, "mpi_extra_task")) =>
           /\ got[p].val = comm_size * (tasks[p] \div comm_size) + p
           /\ got[p].val = 0 => (p = 0 /\ tasks[p] < comm_size)

\* rank 0 owns extra task 0 and is returned 0, and a rank without an extra
\* task is returned 0 as well
C23_Witness ==
  /\ comm_size >= 2
  /\ HasExtra(0) /\ TaskReturned(0, "mpi_extra_task") /\ got[0].val = 0
  /\ \E p \in Ranks :
       /\ called[p] /\ extra_tasks[p] > 0 /\ p >= extra_tasks[p]
       /\ TaskReturned(p, "mpi_extra_task") /\ got[p].val = 0

\* C24: on the last process (rank = size - 1) lastTask() returns the
\* max_task that was passed to setTasks().
C24_LastTaskIsMaxTask ==
  \A p \in Ranks :
    (p = comm_size - 1 /\ TaskReturned(p, "mpi_last_task")) => got[p].val = tasks[p]

(***************************************************************************)
(* Lifecycle of one matrix handle: allocated, staged, finalized, solved,   *)
(* with mpi_matrix_eigenpair() called in any of these states.              *)
(***************************************************************************)

\* the state of one process after mpi_init() and mpi_matrix_alloc() on a
\* square matrix; it stages one entry
InitSolve ==
  /\ build \in {[mpi |-> TRUE, petsc |-> TRUE], [mpi |-> TRUE, petsc |-> FALSE],
                [mpi |-> FALSE, petsc |-> FALSE]}
  /\ comm_size = 1
  /\ etype = "d"
  /\ PartIdle
  /\ MsgIdle
  /\ WriteIdle
  /\ ProbeIdle
  /\ TopoUp
  /\ BackIdle
  /\ LibIdle
  /\ MemIdle
  /\ max_row \in 1 .. MaxRow
  /\ max_col = max_row
  /\ stream = <<[p |-> 0, q |-> 0, x |-> 1]>>
  /\ MatFresh

\* the calls are handed arguments that pass their assertions on n, max_step
\* and the column index
NextSolve ==
  \/ \E r \in Ranks : \E k \in 1 .. Len(stream) :
       mpi_matrix_set(r, k, stream[k].p, stream[k].q, stream[k].x)
  \/ \E r \in Ranks : mpi_matrix_build(r)
  \/ \E r \in Ranks : MatAssemblyEnd(r)
  \/ \E p \in Ranks : \E n \in 1 .. MaxRow : \E max_step \in 1 .. 2 : \E tol \in 0 .. 1 :
       \E up \in BOOLEAN : \E nconv \in 0 .. n :
         \E codes \in {[i \in 1 .. Len(EigenCalls) |-> 0]} :
           mpi_matrix_sparse_eigen(p, n, max_step, tol, up, nconv, codes)
  \/ \E p \in Ranks : \E n \in 0 .. (max_col - 1) :
       \E codes \in {[i \in 1 .. Len(PairCalls) |-> 0]} : mpi_matrix_eigenpair(p, n, codes)
  \/ \E p \in Ranks : TakeResult(p)

SpecSolve == InitSolve /\ [][NextSolve]_vars

\* process p holds the value mpi_matrix_sparse_eigen() returned
Solved(p) == pc[p] = "got" /\ got[p].op = "mpi_matrix_sparse_eigen"

\* C25: in local mode (no USE_PETSC) every value solveSymmetricEigen
\* returns is the number of rows of the operator, whatever count,
\* maxIterations, tolerance and wantUpperSpectrum were passed (3 for a 3x3
\* matrix), so calls that differ only in these arguments return the same
\* value.
C25_LocalSolveReturnsRows ==
  \A p \in Ranks : (~USE_PETSC /\ Solved(p)) => got[p].val = max_row

\* a 3x3 matrix solved for one eigenpair of the upper spectrum returns 3
C25_Witness ==
  \E p \in Ranks :
    /\ ~USE_PETSC
    /\ max_row = 3
    /\ Solved(p)
    /\ got[p].args.n = 1 /\ got[p].args.up /\ got[p].args.max_step = 2
    /\ got[p].val = 3

\* process p calls getEigenpair(handle, n, ...) with some backend outcome
EigenpairStep(p) ==
  \E n \in 0 .. (MaxRow - 1) :
    \E codes \in {[i \in 1 .. Len(PairCalls) |-> 0]} : mpi_matrix_eigenpair(p, n, codes)

\* C26: a getEigenpair call on a handle on which no solveSymmetricEigen call
\* has completed (allocated, staged or finalized) halts the process, and a
\* process holds a returned eigenpair only for a solved handle.
C26_EigenpairNeedsSolve ==
  /\ [](\A p \in Ranks :
          (pc[p] = "got" /\ got[p].op = "mpi_matrix_eigenpair") => eig[p] = "solved")
  /\ [][\A p \in Ranks :
          (eig[p] = "none" /\ EigenpairStep(p)) => pc'[p] \in {"halted", "exited"}]_vars

\* a process of the local backend that has finalized but not solved its
\* matrix is halted by the assertion of getEigenpair
C26_Witness ==
  \E p \in Ranks :
    /\ ~USE_PETSC
    /\ built[p]
    /\ eig[p] = "none"
    /\ pc[p] = "halted"

\* process q has entered mpi_end()
InTeardown(q) == pc[q] = "end_barrier" \/ life[q] = "ended"

\* C27: in every build with USE_MPI, mpi_end() passes a collective barrier
\* before it finalizes: whenever a process has finalized the substrate,
\* every process of the communicator has entered mpi_end().
C27_TeardownBarrier ==
  USE_MPI => \A p \in Ranks : life[p] = "ended" => \A q \in Ranks : InTeardown(q)

(***************************************************************************)
(* OpenMP threads of one process in the messaging calls.  mpi_barrier(),   *)
(* mpi_inbox(), mpi_send() and mpi_receive() wrap their MPI calls in       *)
(* "#pragma omp critical" without a name: all four regions share one lock. *)
(***************************************************************************)

Threads == 1 .. MaxThreads

MessagingCalls == {"mpi_barrier", "mpi_inbox", "mpi_send", "mpi_receive"}

\* the MPI calls a messaging call makes inside its critical region, in order
MpiCalls(op) ==
  IF op = "mpi_barrier" THEN <<"MPI_Barrier">>
  ELSE IF op = "mpi_inbox" THEN <<"MPI_Iprobe">>
  ELSE IF op = "mpi_send" THEN <<"MPI_Send 666", "MPI_Send 667">>
  ELSE <<"MPI_Recv 666", "MPI_Recv 667">>

CriticalIgnored(p) == TRUE

\* a thread enters a critical region only while no thread of its process is
\* inside one
CriticalFree(p) == crit[p] = 0

\* thread t of process p calls a messaging function and reaches its
\* "#pragma omp critical"
ThreadCall(p, t, op) ==
  /\ tpc[p][t] = NoCall
  /\ Len(wire[p]) < MaxWire
  /\ tpc' = [tpc EXCEPT ![p][t] = [op |-> op, at |-> "critical"]]
  /\ UNCHANGED <<partVars, msgVars, writeVars, probeVars, matVars, topoVars, backVars, memVars,
                 eager, crit, wire>>

\* the thread enters the critical region
EnterCritical(p, t) ==
  /\ tpc[p][t].at = "critical"
  /\ CriticalFree(p)
  /\ crit' = [crit EXCEPT ![p] = t]
  /\ tpc' = [tpc EXCEPT ![p][t].at = "first"]
  /\ UNCHANGED <<partVars, msgVars, writeVars, probeVars, matVars, topoVars, backVars, memVars,
                 eager, wire>>

\* the first MPI call of the region: MPI_Barrier, MPI_Iprobe, or the length
\* header on tag 666
FirstMpiCall(p, t) ==
  /\ tpc[p][t].at = "first"
  /\ wire' = [wire EXCEPT ![p] = Append(@, [t |-> t, call |-> MpiCalls(tpc[p][t].op)[1]])]
  /\ tpc' = [tpc EXCEPT ![p][t].at =
               IF Len(MpiCalls(tpc[p][t].op)) = 2 THEN "second" ELSE "end"]
  /\ UNCHANGED <<partVars, msgVars, writeVars, probeVars, matVars, topoVars, backVars, memVars,
                 eager, crit>>

\* the second MPI call of mpi_send() and mpi_receive(): the payload on tag 667
SecondMpiCall(p, t) ==
  /\ tpc[p][t].at = "second"
  /\ wire' = [wire EXCEPT ![p] = Append(@, [t |-> t, call |-> MpiCalls(tpc[p][t].op)[2]])]
  /\ tpc' = [tpc EXCEPT ![p][t].at = "end"]
  /\ UNCHANGED <<partVars, msgVars, writeVars, probeVars, matVars, topoVars, backVars, memVars,
                 eager, crit>>

\* the thread leaves the region and the function.  mpi_barrier() and
\* mpi_inbox() run off the end of the region, which releases the lock;
\* mpi_send() and mpi_receive() leave it by a return statement inside the
\* region, which OpenMP does not define: the lock is released or stays held.
LeaveCritical(p, t) ==
  /\ tpc[p][t].at = "end"
  /\ tpc' = [tpc EXCEPT ![p][t] = NoCall]
  /\ \/ crit' = [crit EXCEPT ![p] = 0]
     \/ /\ Len(MpiCalls(tpc[p][t].op)) = 2
        /\ UNCHANGED crit
  /\ UNCHANGED <<partVars, msgVars, writeVars, probeVars, matVars, topoVars, backVars, memVars,
                 eager, wire>>

\* the state after mpi_init() in a build with USE_MPI.  The lock is local to
\* a process, so the threads of one process are followed; what the other
\* processes send and receive only decides when its MPI calls return.
InitThreads ==
  /\ build \in {[mpi |-> TRUE, petsc |-> TRUE], [mpi |-> TRUE, petsc |-> FALSE]}
  /\ comm_size = 1
  /\ etype = "d"
  /\ PartIdle
  /\ MsgIdle
  /\ WriteIdle
  /\ ExtIdle

NextThreads ==
  \/ \E p \in Ranks : \E t \in Threads : \E op \in MessagingCalls : ThreadCall(p, t, op)
  \/ \E p \in Ranks : \E t \in Threads : EnterCritical(p, t)
  \/ \E p \in Ranks : \E t \in Threads : FirstMpiCall(p, t)
  \/ \E p \in Ranks : \E t \in Threads : SecondMpiCall(p, t)
  \/ \E p \in Ranks : \E t \in Threads : LeaveCritical(p, t)

SpecThreads == InitThreads /\ [][NextThreads]_vars

\* the threads of process p that are executing the MPI calls of a messaging
\* call
InsideCall(p) == {t \in Threads : tpc[p][t].at \in {"first", "second", "end"}}

\* C28: within one process at most one thread at a time is executing the
\* MPI calls of a messaging call (probe, send, receive, barrier), and the
\* length header (tag 666) of a send or receive is followed on the wire
\* directly by the payload (tag 667) of the same thread: while the payload
\* is outstanding that thread is the one about to transmit it.
C28_OneThreadInMessaging ==
  \A p \in Ranks :
    /\ Cardinality(InsideCall(p)) <= 1
    /\ \A i \in 1 .. Len(wire[p]) :
         wire[p][i].call \in {"MPI_Send 666", "MPI_Recv 666"} =>
           IF i < Len(wire[p])
           THEN /\ wire[p][i + 1].t = wire[p][i].t
                /\ wire[p][i + 1].call =
                     (IF wire[p][i].call = "MPI_Send 666" THEN "MPI_Send 667"
                      ELSE "MPI_Recv 667")
           ELSE tpc[p][wire[p][i].t].at = "second"

\* one thread has sent its header and is about to send the payload while
\* another thread of the process waits at the critical region of its own
\* mpi_receive(), after a third call has completed
C28_Witness ==
  \E p \in Ranks : \E t \in Threads : \E u \in Threads :
    /\ t # u
    /\ tpc[p][t] = [op |-> "mpi_send", at |-> "second"]
    /\ tpc[p][u] = [op |-> "mpi_receive", at |-> "critical"]
    /\ Len(wire[p]) >= 2

(***************************************************************************)
(* What one mpi_vector_write() call leaves on the channels (SpecWrite).    *)
(***************************************************************************)

\* the payloads of the c-th mpi_vector_write() call that are still in flight
\* from process s to the root
PendingOf(s, c) == SelectSeq(dat[s][0], LAMBDA msg : msg.call = c)

\* C29: once every process has returned from a writeRange call, no message
\* sent during that call is still pending on a channel to the root, and the
\* root's sink never takes, during one call, a value sent during an earlier
\* one.
C29_NothingLeftPending ==
  /\ \A c \in 1 .. MaxCalls :
       AllReturned(c) => \A s \in Ranks : PendingOf(s, c) = <<>>
  /\ \A k \in 1 .. Len(sink) : sink[k].call = sink[k].during

\* the first half of C29 alone, and the second half alone
C29_NothingLeftPendingAtReturn ==
  \A c \in 1 .. MaxCalls :
    AllReturned(c) => \A s \in Ranks : PendingOf(s, c) = <<>>

C29_NoValueOfEarlierCall ==
  \A k \in 1 .. Len(sink) : sink[k].call = sink[k].during

(***************************************************************************)
(* Termination of mpi_vector_write() in the PETSc build (SpecGather): every *)
(* process calls it MaxCalls times with the same vector and range, over an *)
(* MPI library that buffers standard-mode sends or one that does not.      *)
(***************************************************************************)

InitGather ==
  /\ build = [mpi |-> TRUE, petsc |-> TRUE]
  /\ comm_size \in 1 .. MaxProcs
  /\ etype = "d"
  /\ PartIdle
  /\ MsgIdle
  /\ ProbeIdle
  /\ MatIdle
  /\ TopoUp
  /\ BackIdle
  /\ ThreadsIdle
  /\ MemIdle
  /\ eager \in BOOLEAN
  /\ wn = [r \in Ranks |-> 0]
  /\ wfrom = 0
  /\ bar = [r \in Ranks |-> 0]
  /\ ncalls = [r \in Ranks |-> 0]
  /\ sink = <<>>
  /\ fwrites = [r \in Ranks |-> 0]
  /\ vlen \in 1 .. MaxVecLen
  /\ n_min \in 0 .. (vlen - 1)
  /\ n_max \in (n_min + 1) .. vlen
  /\ WriteAsserts

NextGather ==
  \/ \E p \in Ranks : CallWrite(p)
  \/ \E p \in Ranks : mpi_barrier(p)
  \/ \E p \in Ranks : WriteRootOwn(p)
  \/ \E p \in Ranks : WriteDrain(p)
  \/ \E p \in Ranks : WriteReceived(p)
  \/ \E p \in Ranks : WriteNonRootStart(p)
  \/ \E p \in Ranks : WriteNonRootLoop(p)
  \/ \E p \in Ranks : mpi_send_header(p)
  \/ \E p \in Ranks : mpi_send_payload(p)
  \/ \E p \in Ranks : mpi_send_return(p)
  \/ \E p \in Ranks : mpi_receive_header(p)
  \/ \E p \in Ranks : mpi_receive_payload(p)

\* the steps of process p
GatherStep(p) ==
  \/ CallWrite(p)
  \/ mpi_barrier(p)
  \/ WriteRootOwn(p)
  \/ WriteDrain(p)
  \/ WriteReceived(p)
  \/ WriteNonRootStart(p)
  \/ WriteNonRootLoop(p)
  \/ mpi_send_header(p)
  \/ mpi_send_payload(p)
  \/ mpi_send_return(p)
  \/ mpi_receive_header(p)
  \/ mpi_receive_payload(p)

\* every process goes on running: it makes each of its calls and takes a
\* step whenever it is not blocked
SpecGather ==
  /\ InitGather
  /\ [][NextGather]_vars
  /\ \A p \in 0 .. (MaxProcs - 1) : WF_vars(p \in Ranks /\ GatherStep(p))

\* process p is inside mpi_vector_write()
InWrite(p) == p \in Ranks /\ pc[p] # "idle"

\* process p is inside an MPI_Send of mpi_send() that has not returned
BlockedInSend(p) ==
  /\ p \in Ranks
  /\ \/ pc[p] = "send_dat" /\ ~SendComplete(hdr[p][sarg[p].to], sarg[p].id)
     \/ pc[p] = "send_end" /\ ~SendComplete(dat[p][sarg[p].to], sarg[p].id)

\* C30: when all processes call writeRange on the same vector and range,
\* every one of them eventually returns from it, and no process stays
\* blocked forever in a send to the root.
C30_EveryWriteReturns ==
  \A p \in 0 .. (MaxProcs - 1) :
    /\ InWrite(p) ~> (p \in Ranks /\ pc[p] = "idle")
    /\ BlockedInSend(p) ~> ~BlockedInSend(p)

\* the same over an MPI library that buffers every standard-mode send
C30_ReturnsWhenBuffered ==
  \A p \in 0 .. (MaxProcs - 1) :
    (eager /\ InWrite(p)) ~> (p \in Ranks /\ pc[p] = "idle")

\* the root is never left in a receive that no send matches
C30_RootReceiveMatched ==
  ((pc[0] \in {"recv_hdr", "recv_dat"}) ~> (pc[0] = "w_fwrite"))

(***************************************************************************)
(* Who produces which element during mpi_vector_write() (SpecWrite).       *)
(***************************************************************************)

\* the indices of [n_min, n_max) that lie in the ownership range of rank r
OwnInRange(r) == {i \in n_min .. (n_max - 1) : VecFirst(r) <= i /\ i < VecLast(r)}

\* the elements of a set of indices, in ascending index order
RECURSIVE Ascending(_)
Ascending(S) ==
  IF S = {} THEN <<>>
  ELSE LET lo == CHOOSE i \in S : \A j \in S : i <= j
       IN  <<VecVal(lo)>> \o Ascending(S \ {lo})

\* the values rank r has handed to mpi_send() during its c-th call, in order
SentDuring(r, c) ==
  LET of == SelectSeq(sent[r], LAMBDA e : e.call = c)
  IN  [k \in 1 .. Len(of) |-> of[k].data[1]]

\* the values the root has written from its own part during its c-th call
WrittenDirectly(c) ==
  LET of == SelectSeq(sink, LAMBDA e : e.from = 0 /\ e.during = c)
  IN  [k \in 1 .. Len(of) |-> of[k].val]

\* s is an initial part of t
IsPrefix(s, t) == Len(s) <= Len(t) /\ \A k \in 1 .. Len(s) : s[k] = t[k]

\* C31: in distributed mode, during writeRange(v, first, last, sink), each
\* non-root rank sends to the root exactly its owned elements of
\* [first, last), one value per message and in ascending index order, and
\* the root writes directly exactly its own elements of [first, last); so
\* every index of [first, last) is produced by exactly one process.
C31_EachIndexProducedOnce ==
  Distributed =>
    \A c \in 1 .. MaxCalls :
      /\ \A r \in Ranks \ {0} :
           /\ \A k \in 1 .. Len(sent[r]) :
                sent[r][k].dst = 0 /\ sent[r][k].n = 1 /\ Len(sent[r][k].data) = 1
           /\ IsPrefix(SentDuring(r, c), Ascending(OwnInRange(r)))
           /\ ncalls[r] >= c => SentDuring(r, c) = Ascending(OwnInRange(r))
      /\ IsPrefix(WrittenDirectly(c), Ascending(OwnInRange(0)))
      /\ ncalls[0] >= c => WrittenDirectly(c) = Ascending(OwnInRange(0))
      /\ \A i \in n_min .. (n_max - 1) :
           Cardinality({r \in Ranks : i \in OwnInRange(r)}) = 1

\* C31 witness: three processes have returned from a call in which the
\* root wrote an element of its own and two other ranks sent elements, one
\* of them two or more
C31_Witness ==
  /\ Distributed
  /\ comm_size = 3
  /\ AllReturned(1)
  /\ Len(WrittenDirectly(1)) >= 1
  /\ Len(SentDuring(1, 1)) >= 2
  /\ Len(SentDuring(2, 1)) >= 1

(***************************************************************************)
(* A receive issued after a probe that returned true (SpecProbeRecv): the  *)
(* senders use a supported element type and go on running; the MPI library *)
(* buffers standard-mode sends or does not.                                *)
(***************************************************************************)

\* the caller of mpi_inbox(from) has got true and calls
\* mpi_receive(from, n, etype, buf) next
ReceiveAfterProbe(p, n) ==
  /\ pc[p] = "probed"
  /\ inbox[p].flag
  /\ IF ~(ASSERT(n > 0) /\ ASSERT_RANK(p, inbox[p].from))
     THEN /\ pc' = [pc EXCEPT ![p] = "halted"]
          /\ UNCHANGED <<rarg, ret>>
     ELSE /\ rarg' = [rarg EXCEPT ![p] = [from |-> inbox[p].from, n |-> n,
                                          type |-> etype, m |-> 0, hid |-> 0]]
          /\ pc' = [pc EXCEPT ![p] = "recv_hdr"]
          /\ ret' = [ret EXCEPT ![p] = "received"]
  /\ UNCHANGED <<extVars, partVars, writeVars, build, sarg, buf, hdr, dat, sent, log, etype>>

\* that mpi_receive() has returned to its caller
ReceivedReturn(p) ==
  /\ pc[p] = "received"
  /\ inbox' = [inbox EXCEPT ![p] = NoProbe]
  /\ pc' = [pc EXCEPT ![p] = "idle"]
  /\ UNCHANGED <<partVars, writeVars, matVars, topoVars, backVars, libVars, memVars,
                 build, ret,
                 sarg, rarg, buf, hdr, dat, sent, log, etype>>

\* the state after mpi_init() in the build with USE_MPI, two processes, a
\* supported element type
InitProbeRecv ==
  /\ build = [mpi |-> TRUE, petsc |-> FALSE]
  /\ comm_size = 2
  /\ etype \in Types
  /\ PartIdle
  /\ MsgIdle
  /\ WriteIdle
  /\ ProbeIdle
  /\ MatIdle
  /\ TopoUp
  /\ BackIdle
  /\ ThreadsIdle
  /\ MemIdle
  /\ eager \in BOOLEAN

NextProbeRecv ==
  \/ \E p \in Ranks : \E from \in Ranks : CallInbox(p, from)
  \/ \E p \in Ranks : InboxReturn(p)
  \/ \E p \in Ranks : \E n \in 1 .. MaxLen : ReceiveAfterProbe(p, n)
  \/ \E p \in Ranks : ReceivedReturn(p)
  \/ \E p \in Ranks : \E to \in Ranks : \E n \in 1 .. MaxLen : CallSend(p, to, n)
  \/ \E p \in Ranks : mpi_send_header(p)
  \/ \E p \in Ranks : mpi_send_payload(p)
  \/ \E p \in Ranks : mpi_send_return(p)
  \/ \E p \in Ranks : mpi_receive_header(p)
  \/ \E p \in Ranks : mpi_receive_payload(p)

\* the steps a process takes inside mpi_send() and mpi_receive()
MessagingStep(p) ==
  \/ mpi_send_header(p)
  \/ mpi_send_payload(p)
  \/ mpi_send_return(p)
  \/ mpi_receive_header(p)
  \/ mpi_receive_payload(p)

\* a process inside mpi_send() or mpi_receive() goes on running; nothing
\* obliges a process to make a call
SpecProbeRecv ==
  /\ InitProbeRecv
  /\ [][NextProbeRecv]_vars
  /\ \A p \in 0 .. (MaxProcs - 1) : WF_vars(p \in Ranks /\ MessagingStep(p))

\* process p is inside the mpi_receive() it issued after a true probe
InProbedReceive(p) ==
  p \in Ranks /\ ret[p] = "received" /\ pc[p] \in {"recv_hdr", "recv_dat"}

\* C32: if probe(from) returned true and the senders use a supported element
\* type and keep running, the receive(from, ...) the process issues next
\* eventually returns.
C32_ProbedReceiveReturns ==
  \A p \in 0 .. (MaxProcs - 1) :
    InProbedReceive(p) ~> (p \in Ranks /\ pc[p] = "received")

\* the same for a receive whose count is not below the pending message's
\* length
C32_ProbedReceiveLargeEnoughReturns ==
  \A p \in 0 .. (MaxProcs - 1) :
    (InProbedReceive(p) /\ rarg[p].n = MaxLen) ~> (p \in Ranks /\ pc[p] = "received")

(***************************************************************************)
(* What a receive shorter than the message leaves behind, and what a send  *)
(* with an unsupported element type leaves behind (SpecMsg).               *)
(***************************************************************************)

\* the receptions whose count is below the length of the message they take
ShortReceptions ==
  {t \in Receptions :
     log[t[1]][t[2]][t[3]].count < SentBy(t[2], log[t[1]][t[2]][t[3]].hid).n}

\* C33: after a receive(from, count, ...) matched by a send of
\* senderLength > count elements, the unread senderLength - count elements
\* stay pending, and the next receive from that source returns them, in
\* order and before any element of a later message.
C33_UnreadElementsStayPending ==
  \A t \in ShortReceptions :
    LET d == t[1]
        s == t[2]
        e == log[d][s][t[3]]
        snd == SentBy(s, e.hid)
    IN  /\ e.ok
        /\ pc[d] # "aborted"
        /\ t[3] < Len(log[d][s]) =>
             LET nxt == log[d][s][t[3] + 1]
                 rest == Min(snd.n - e.count, nxt.count)
             IN  /\ nxt.ok
                 /\ \A i \in 1 .. rest : nxt.after[i] = SendBuf(e.hid)[e.count + i]

\* a process has left mpi_send() by exit() because of the element type
ExitedInSend(p) == pc[p] = "exited" /\ sarg[p] # NoSend

\* C35: a send that fails because of an unsupported element type leaves
\* every channel unchanged: the process has transmitted neither a length
\* header nor a payload before it terminates, so no probe on the
\* destination reports a message of it and no receive waits for its payload.
C35_FailedSendLeavesNoTrace ==
  /\ [][\A p \in Ranks :
          (pc[p] = "send_hdr" /\ pc'[p] = "exited") => UNCHANGED <<hdr, dat>>]_vars
  /\ [](\A p \in Ranks :
          ExitedInSend(p) =>
            \A q \in Ranks :
              /\ \A k \in 1 .. Len(hdr[p][q]) : hdr[p][q][k].id # sarg[p].id
              /\ \A k \in 1 .. Len(dat[p][q]) : dat[p][q][k].id # sarg[p].id
              /\ ~(pc[q] = "recv_dat" /\ rarg[q].hid = sarg[p].id))

\* the part of C35 that the code keeps: no payload of the failed send is
\* ever transmitted
C35_FailedSendLeavesNoPayload ==
  \A p \in Ranks :
    ExitedInSend(p) =>
      \A q \in Ranks : \A k \in 1 .. Len(dat[p][q]) : dat[p][q][k].id # sarg[p].id

(***************************************************************************)
(* The leftover count of mpi_set_tasks() in size_t arithmetic (SpecTasks). *)
(***************************************************************************)

\* the task counts next to the largest size_t value
LargeTasks == (WordMod - MaxTask) .. (WordMod - 1)

\* the leftover count is max_task - size*chunk_size in size_t arithmetic,
\* which is max_task mod size, and lies in 0 .. size-1
LeftoverExact(res, size) ==
  /\ res.extra_tasks = WSub(WSub(res.tasks, 1), res.last_rank_index)
  /\ res.extra_tasks = WSub(res.tasks, (size * res.chunk_size) % WordMod)
  /\ res.extra_tasks = res.tasks % size
  /\ 0 <= res.extra_tasks /\ res.extra_tasks < size

\* C34: for every size >= 1 and maxTask > 0, in size_t arithmetic (the case
\* chunkSize = 0 included, where lastMainIndex wraps), the leftover count
\* (maxTask - 1) - lastMainIndex that setTasks computes equals
\* maxTask - size*chunkSize = maxTask mod size, so 0 <= extra < size.
C34_LeftoverIsRemainder ==
  /\ \A r \in Ranks :
       called[r] =>
         LeftoverExact([tasks |-> tasks[r], chunk_size |-> chunk_size[r],
                        last_rank_index |-> last_rank_index[r],
                        extra_tasks |-> extra_tasks[r]], comm_size)
  /\ \A max_task \in LargeTasks :
       LeftoverExact(SetTasksResult(max_task, comm_size), comm_size)

\* C34 witness: a process has called setTasks with fewer tasks than
\* processes (chunkSize = 0, lastMainIndex wrapped to the largest value) and
\* another one, in the same communicator, with a positive chunkSize and a
\* positive leftover
C34_Witness ==
  \E r1 \in Ranks : \E r2 \in Ranks :
    /\ called[r1] /\ chunk_size[r1] = 0 /\ last_rank_index[r1] = WordMod - 1
    /\ extra_tasks[r1] = tasks[r1]
    /\ called[r2] /\ chunk_size[r2] > 0 /\ extra_tasks[r2] > 0

(***************************************************************************)
(* Two processes whose threads exchange messages (SpecCross): on each      *)
(* process thread 1 receives from the other process and the other threads  *)
(* send to it.  An MPI_Recv returns once the matching MPI_Send was made.   *)
(***************************************************************************)

\* the other process of the pair
Peer(p) == 1 - p

\* how many times the threads of process p have made the MPI call
Made(p, call) == Len(SelectSeq(wire[p], LAMBDA e : e.call = call))

\* the MPI call the thread is about to make can return: an MPI_Recv needs a
\* message of its tag sent by the peer and not yet received
CanReturn(p, call) ==
  /\ call = "MPI_Recv 666" => Made(Peer(p), "MPI_Send 666") > Made(p, "MPI_Recv 666")
  /\ call = "MPI_Recv 667" => Made(Peer(p), "MPI_Send 667") > Made(p, "MPI_Recv 667")

\* thread 1 calls mpi_receive(peer, ...), another thread mpi_send(peer, ...)
CrossCall(p, t) ==
  ThreadCall(p, t, IF t = 1 THEN "mpi_receive" ELSE "mpi_send")

\* the first and the second MPI call of the region, once they can return
BlockingFirstCall(p, t) ==
  /\ tpc[p][t].at = "first"
  /\ CanReturn(p, MpiCalls(tpc[p][t].op)[1])
  /\ FirstMpiCall(p, t)

BlockingSecondCall(p, t) ==
  /\ tpc[p][t].at = "second"
  /\ CanReturn(p, MpiCalls(tpc[p][t].op)[2])
  /\ SecondMpiCall(p, t)

InitCross ==
  /\ build \in {[mpi |-> TRUE, petsc |-> TRUE], [mpi |-> TRUE, petsc |-> FALSE]}
  /\ comm_size = 2
  /\ etype = "d"
  /\ PartIdle
  /\ MsgIdle
  /\ WriteIdle
  /\ ExtIdle

NextCross ==
  \/ \E p \in Ranks : \E t \in Threads : CrossCall(p, t)
  \/ \E p \in Ranks : \E t \in Threads : EnterCritical(p, t)
  \/ \E p \in Ranks : \E t \in Threads : BlockingFirstCall(p, t)
  \/ \E p \in Ranks : \E t \in Threads : BlockingSecondCall(p, t)
  \/ \E p \in Ranks : \E t \in Threads : LeaveCritical(p, t)

\* the steps of a thread inside a messaging call
ThreadStep(p, t) ==
  \/ EnterCritical(p, t)
  \/ BlockingFirstCall(p, t)
  \/ BlockingSecondCall(p, t)
  \/ LeaveCritical(p, t)

\* a thread inside a messaging call goes on whenever it is not blocked;
\* nothing obliges a thread to make a call
SpecCross ==
  /\ InitCross
  /\ [][NextCross]_vars
  /\ \A p \in 0 .. 1 : \A t \in Threads : WF_vars(ThreadStep(p, t))

\* thread t of process p is inside the call op
InCall(p, t, op) == tpc[p][t].op = op

\* C36: a thread blocked inside receive waiting for a peer does not prevent
\* another thread of the same process from completing a send: when thread 1
\* of each of two processes is inside a receive from the other and thread 2
\* of each process sends the awaited message, both receives return.
C36_BlockedReceiveLetsSendThrough ==
  (/\ InCall(0, 1, "mpi_receive") /\ InCall(1, 1, "mpi_receive")
   /\ InCall(0, 2, "mpi_send") /\ InCall(1, 2, "mpi_send"))
    ~> (tpc[0][1] = NoCall /\ tpc[1][1] = NoCall)

\* the two receiving threads hold the critical regions of their processes
\* inside MPI_Recv while the two sending threads wait for them, and no
\* thread has left a region yet
CrossDeadlock ==
  /\ \A p \in Ranks :
       /\ crit[p] = 1 /\ tpc[p][1] = [op |-> "mpi_receive", at |-> "first"]
       /\ tpc[p][2] = [op |-> "mpi_send", at |-> "critical"]
       /\ wire[p] = <<>>

\* no run reaches that state
C36_NoCrossDeadlock == ~CrossDeadlock

(***************************************************************************)
(* Resources of the matrix and vector handles (SpecAlloc): what            *)
(* mpi_matrix_alloc(), mpi_vector_alloc() and mpi_matrix_sparse_eigen()    *)
(* acquire and what mpi_matrix_free() and mpi_vector_free() release, on    *)
(* one process.  Every PETSc/SLEPc call succeeds.                          *)
(***************************************************************************)

\* a resource acquired for the gen-th allocation of handle h; k numbers the
\* solves run on it
Resource(kind, h, k) == [kind |-> kind, h |-> h, gen |-> handles[h].gen, k |-> k]

\* what mpi_matrix_alloc() acquires: the handle record, and MatCreateAIJ /
\* MatCreateSeqAIJ or matrix_alloc(), which allocates a record and its data
MatrixAllocated(h) ==
  IF USE_PETSC
  THEN {Resource("mpi_matrix record", h, 0), Resource("Mat", h, 0)}
  ELSE {Resource("mpi_matrix record", h, 0), Resource("matrix record", h, 0),
        Resource("matrix data", h, 0)}

\* what mpi_vector_alloc() acquires: the handle record, and VecCreate or the
\* buffer of doubles
VectorAllocated(h) ==
  IF USE_PETSC
  THEN {Resource("mpi_vector record", h, 0), Resource("Vec", h, 0)}
  ELSE {Resource("mpi_vector record", h, 0), Resource("vector data", h, 0)}

\* what mpi_matrix_sparse_eigen() acquires at the k-th solve on the handle:
\* EPSCreate, or the eigenvalue buffer matrix_symm_eigen() returns
SolveAllocated(h, k) ==
  IF USE_PETSC THEN {Resource("EPS", h, k)} ELSE {Resource("eigenval", h, k)}

\* what mpi_matrix_free() releases: MatDestroy and free(m), or
\* matrix_free(m->data), which frees the matrix data and the matrix record
MatrixReleased(h) ==
  IF USE_PETSC
  THEN {Resource("Mat", h, 0), Resource("mpi_matrix record", h, 0)}
  ELSE {Resource("matrix data", h, 0), Resource("matrix record", h, 0)}

\* what mpi_vector_free() releases: VecDestroy and free(v), or free(v->data)
\* and free(v)
VectorReleased(h) ==
  IF USE_PETSC
  THEN {Resource("Vec", h, 0), Resource("mpi_vector record", h, 0)}
  ELSE {Resource("vector data", h, 0), Resource("mpi_vector record", h, 0)}

\* handle h is free for a new allocation
CanAllocate(h) == handles[h].kind = "none" /\ handles[h].gen < MaxAllocs

mpi_matrix_alloc(h) ==
  /\ CanAllocate(h)
  /\ handles' = [handles EXCEPT ![h] = [kind |-> "matrix", solves |-> 0, gen |-> @.gen + 1]]
  /\ heap' = heap \cup
       {[r EXCEPT !.gen = @ + 1] : r \in MatrixAllocated(h)}
  /\ UNCHANGED <<partVars, msgVars, writeVars, probeVars, matVars, topoVars, backVars, libVars>>

mpi_vector_alloc(h) ==
  /\ CanAllocate(h)
  /\ handles' = [handles EXCEPT ![h] = [kind |-> "vector", solves |-> 0, gen |-> @.gen + 1]]
  /\ heap' = heap \cup
       {[r EXCEPT !.gen = @ + 1] : r \in VectorAllocated(h)}
  /\ UNCHANGED <<partVars, msgVars, writeVars, probeVars, matVars, topoVars, backVars, libVars>>

\* mpi_matrix_sparse_eigen() on the handle, as far as resources go
SolveOn(h) ==
  /\ handles[h].kind = "matrix"
  /\ handles[h].solves < MaxSolves
  /\ handles' = [handles EXCEPT ![h].solves = @ + 1]
  /\ heap' = heap \cup SolveAllocated(h, handles[h].solves + 1)
  /\ UNCHANGED <<partVars, msgVars, writeVars, probeVars, matVars, topoVars, backVars, libVars>>

mpi_matrix_free(h) ==
  /\ handles[h].kind = "matrix"
  /\ handles' = [handles EXCEPT ![h].kind = "none", ![h].solves = 0]
  /\ heap' = heap \ MatrixReleased(h)
  /\ UNCHANGED <<partVars, msgVars, writeVars, probeVars, matVars, topoVars, backVars, libVars>>

mpi_vector_free(h) ==
  /\ handles[h].kind = "vector"
  /\ handles' = [handles EXCEPT ![h].kind = "none", ![h].solves = 0]
  /\ heap' = heap \ VectorReleased(h)
  /\ UNCHANGED <<partVars, msgVars, writeVars, probeVars, matVars, topoVars, backVars, libVars>>

InitAlloc ==
  /\ build \in {[mpi |-> TRUE, petsc |-> TRUE], [mpi |-> TRUE, petsc |-> FALSE],
                [mpi |-> FALSE, petsc |-> FALSE]}
  /\ comm_size = 1
  /\ etype = "d"
  /\ PartIdle
  /\ MsgIdle
  /\ WriteIdle
  /\ ExtIdle

NextAlloc ==
  \/ \E h \in Handles : mpi_matrix_alloc(h)
  \/ \E h \in Handles : mpi_vector_alloc(h)
  \/ \E h \in Handles : SolveOn(h)
  \/ \E h \in Handles : mpi_matrix_free(h)
  \/ \E h \in Handles : mpi_vector_free(h)

SpecAlloc == InitAlloc /\ [][NextAlloc]_vars

\* the resources held for handle h
HeldFor(h) == {r \in heap : r.h = h}

\* C37: after free(handle) every resource acquired for that handle since its
\* allocation is released, in both backends (the backend storage, the handle
\* record and the stored eigenvalues of a solve); so after any sequence of
\* alloc ... free pairs no resource is held, as before the first alloc.
C37_FreeReleasesEverything ==
  \A h \in Handles : handles[h].kind = "none" => HeldFor(h) = {}

\* the same for vector handles alone, and for matrix handles of the PETSc
\* build on which no solve was run
C37_VectorFreeReleasesEverything ==
  \A h \in Handles :
    handles[h].kind = "none" =>
      \A r \in HeldFor(h) : r.kind \notin {"mpi_vector record", "Vec", "vector data"}

C37_UnsolvedPetscMatrixFreeReleasesEverything ==
  USE_PETSC =>
    \A h \in Handles :
      handles[h].kind = "none" =>
        \A r \in HeldFor(h) : r.kind = "EPS"

(***************************************************************************)
(* The barrier at the start of mpi_vector_write() (SpecWrite).             *)
(***************************************************************************)

\* process q has entered its c-th mpi_vector_write() call
EnteredWrite(q, c) == ncalls[q] >= c \/ (ncalls[q] = c - 1 /\ pc[q] # "idle")

\* during its c-th call process p has written an element to the sink or
\* handed one to mpi_send()
ProducedIn(p, c) ==
  \/ \E k \in 1 .. Len(sent[p]) : sent[p][k].call = c
  \/ p = 0 /\ \E k \in 1 .. Len(sink) : sink[k].during = c

\* C38: in every build that runs several processes, writeRange starts with
\* a collective barrier: no process writes an element to the sink or sends
\* an element to the root before every process has entered the same
\* writeRange call.
C38_WriteStartsWithBarrier ==
  (USE_MPI /\ comm_size >= 2) =>
    \A c \in 1 .. MaxCalls : \A p \in Ranks :
      ProducedIn(p, c) => \A q \in Ranks : EnteredWrite(q, c)

\* the same in the build with USE_PETSC alone
C38_WriteStartsWithBarrierPetsc ==
  (USE_PETSC /\ comm_size >= 2) =>
    \A c \in 1 .. MaxCalls : \A p \in Ranks :
      ProducedIn(p, c) => \A q \in Ranks : EnteredWrite(q, c)

====
